---- MODULE Spec2Model ----
(***************************************************************************)
(* A model of @justscale/result: the plain Result / Option containers,     *)
(* the batch collectors of the Result namespace, the asynchronous stream   *)
(* consumers and the fluent chain wrappers.                                *)
(***************************************************************************)
EXTENDS Integers, Sequences, FiniteSets, TLC

VARIABLES
  \* ---- batch collectors
  results,        \* the input array handed to the batch collectors
  collectOut,     \* what Result.collect(results) returned, or NotRun
  collectAllOut,  \* what Result.collectAll(results) returned, or NotRun
  partitionOut,   \* what Result.partition(results) returned, or NotRun
  \* ---- stream consumers and their source
  op,             \* the stream operation that was called
  src,            \* the items the source generator goes through (createStream's items)
  srcFaulty,      \* the source throws where its items run out, instead of ending
  srcEndless,     \* the source never ends: it goes through its items again and again
  raised,         \* the fault the awaited next() rejected with, or NoFault
  srcPos,         \* how many elements the source has produced
  srcDone,        \* the source generator has completed
  srcPending,     \* the request the source is serving: "none", "next" or "return"
  srcRequested,   \* how many times next() was called on the source
  srcReturnCalls, \* how many times return() was called on the source
  answer,         \* the iterator result the operation is resumed with, or NoAnswer
  pc,             \* where the operation is suspended
  values,         \* the local array values
  errors,         \* the local array errors
  retval,         \* the value of a return statement waiting for the source to close
  resolved,       \* what the returned promise resolved to, or NotRun
  consumerReq,    \* how many times the consumer called next() on takeUntilErr's generator
  queue,          \* consumer requests not answered yet
  delivered,      \* the iterator results handed to the consumer, in order
  \* ---- chain wrappers
  side,           \* "result" (ResultChain) or "option" (OptionChain)
  heap,           \* the wrappers created so far: heap[w] is the #data of wrapper w
  cur,            \* the wrapper the last call returned, receiver of the next call
  tdepth,         \* static type of cur's payload: how many containers are nested in T
  calls,          \* the external call counter: user functions invoked so far
  trace,          \* one record per chain call, in order
  \* ---- exception adapters
  adapter,        \* the adapter that was called: "fromTry" or "fromAsync"
  thunk,          \* what the function passed to the adapter does when it is called
  thunkCalls,     \* how many times the adapter called that function
  objects,        \* how many objects exist: an object's id is its rank of creation
  adapterPc,      \* where the adapter is: "init", "await" or "done"
  settled,        \* the promise the function returned is settled
  outcome,        \* how the call ended, or NotRun: fromTry's return or throw,
                  \* the settlement of the promise fromAsync returned
  \* ---- containers through JSON
  made,           \* the container ok / err / some / none returned, or NotRun
  json,           \* the document JSON.stringify(made) gave, or NotRun
  parsed          \* what JSON.parse made of that document, or NotRun

batchVars == <<results, collectOut, collectAllOut, partitionOut>>

sourceVars == <<src, srcFaulty, srcEndless, raised, srcPos, srcDone, srcPending, srcRequested, srcReturnCalls, answer>>

consumerVars == <<consumerReq, queue, delivered>>

streamVars == <<op, sourceVars, pc, values, errors, retval, resolved, consumerVars>>

chainVars == <<side, heap, cur, tdepth, calls, trace>>

adapterVars == <<adapter, thunk, thunkCalls, objects, adapterPc, settled, outcome>>

serialVars == <<made, json, parsed>>

vars == <<batchVars, streamVars, chainVars, adapterVars, serialVars>>

(***************************************************************************)
(* Bounds of the model.                                                    *)
(***************************************************************************)
MaxLen == 4
MaxVal == 2
MaxSteps == 3

\* how many elements a source that never ends is followed for
MaxPulls == 6

\* success payloads and error payloads the inputs are drawn from
Vals == 1..MaxVal
Errs == {"x", "y"}

\* marks an output that has not been produced yet
NotRun == [tag |-> "notrun"]

\* the settlement of a promise
Fulfilled(value) == [kind |-> "fulfilled", value |-> value]

Rejected(reason) == [kind |-> "rejected", value |-> reason]

(***************************************************************************)
(* Container model (result.ts).                                            *)
(***************************************************************************)
ok(value) == [ok |-> TRUE, value |-> value]

\* err that sets its brand on the object
errBranded(error) == [ok |-> FALSE, error |-> error, brand |-> TRUE]

err(error) == [ok |-> FALSE, error |-> error]

isOk(result) == result.ok = TRUE

\* the plain Results an input sequence or a source is made of
Results == {ok(v) : v \in Vals} \cup {err(e) : e \in Errs}

SeqsUpTo(S, n) == UNION {[1..k -> S] : k \in 0..n}

(***************************************************************************)
(* Batch collector: Result.collect / collectAll / partition.  Each for-of  *)
(* loop is a recursion over the index i of the next element.               *)
(***************************************************************************)
\* collect with the Err test dropped: a failed element is passed over
RECURSIVE collectLoopSkipsErr(_, _, _)
collectLoopSkipsErr(rs, i, vs) ==
  IF i > Len(rs) THEN ok(vs)
  ELSE IF ~isOk(rs[i]) THEN collectLoopSkipsErr(rs, i + 1, vs)
  ELSE collectLoopSkipsErr(rs, i + 1, Append(vs, rs[i].value))

\* collect that scans on after an Err and returns the last Err of the array
collectLoopLastErr(rs, i, vs) ==
  LET failed == {k \in 1..Len(rs) : ~isOk(rs[k])}
  IN IF failed = {}
       THEN ok([k \in 1..Len(rs) |-> rs[k].value])
       ELSE rs[CHOOSE k \in failed : \A j \in failed : j <= k]

RECURSIVE collectLoop(_, _, _)
collectLoop(rs, i, vs) ==
  IF i > Len(rs) THEN ok(vs)
  ELSE IF ~isOk(rs[i]) THEN rs[i]
  ELSE collectLoop(rs, i + 1, Append(vs, rs[i].value))

collect(rs) == collectLoop(rs, 1, <<>>)

\* collectAll that stops scanning at the first Err
RECURSIVE collectAllLoopStops(_, _, _, _)
collectAllLoopStops(rs, i, vs, es) ==
  IF i > Len(rs)
    THEN IF Len(es) > 0 THEN err(es) ELSE ok(vs)
  ELSE IF ~isOk(rs[i])
    THEN err(Append(es, rs[i].error))
  ELSE collectAllLoopStops(rs, i + 1, Append(vs, rs[i].value), es)

RECURSIVE collectAllLoop(_, _, _, _)
collectAllLoop(rs, i, vs, es) ==
  IF i > Len(rs)
    THEN IF Len(es) > 0 THEN err(es) ELSE ok(vs)
  ELSE IF ~isOk(rs[i])
    THEN collectAllLoop(rs, i + 1, vs, Append(es, rs[i].error))
  ELSE collectAllLoop(rs, i + 1, Append(vs, rs[i].value), es)

collectAll(rs) == collectAllLoop(rs, 1, <<>>, <<>>)

\* partition that leaves out an Err met after another Err
RECURSIVE partitionLoopDropsErr(_, _, _, _)
partitionLoopDropsErr(rs, i, okValues, errValues) ==
  IF i > Len(rs) THEN [ok |-> okValues, err |-> errValues]
  ELSE IF isOk(rs[i])
    THEN partitionLoopDropsErr(rs, i + 1, Append(okValues, rs[i].value), errValues)
  ELSE partitionLoopDropsErr(rs, i + 1, okValues,
                             IF errValues = <<>> THEN <<rs[i].error>> ELSE errValues)

RECURSIVE partitionLoop(_, _, _, _)
partitionLoop(rs, i, okValues, errValues) ==
  IF i > Len(rs) THEN [ok |-> okValues, err |-> errValues]
  ELSE IF isOk(rs[i])
    THEN partitionLoop(rs, i + 1, Append(okValues, rs[i].value), errValues)
  ELSE partitionLoop(rs, i + 1, okValues, Append(errValues, rs[i].error))

partition(rs) == partitionLoop(rs, 1, <<>>, <<>>)

BatchStart ==
  /\ collectOut = NotRun
  /\ collectAllOut = NotRun
  /\ partitionOut = NotRun

BatchIdle == results = <<>> /\ BatchStart

Collect ==
  /\ collectOut = NotRun
  /\ collectOut' = collect(results)
  /\ UNCHANGED <<results, collectAllOut, partitionOut, streamVars, chainVars, adapterVars, serialVars>>

CollectAll ==
  /\ collectAllOut = NotRun
  /\ collectAllOut' = collectAll(results)
  /\ UNCHANGED <<results, collectOut, partitionOut, streamVars, chainVars, adapterVars, serialVars>>

Partition ==
  /\ partitionOut = NotRun
  /\ partitionOut' = partition(results)
  /\ UNCHANGED <<results, collectOut, collectAllOut, streamVars, chainVars, adapterVars, serialVars>>

BatchNext == Collect \/ CollectAll \/ Partition

(***************************************************************************)
(* What the batch collectors are expected to return, stated on the input.  *)
(***************************************************************************)
AllOk(rs) == \A i \in 1..Len(rs) : isOk(rs[i])

HasErr(rs) == \E i \in 1..Len(rs) : ~isOk(rs[i])

\* the index of the first Err of rs (rs has one)
FirstErrIndex(rs) ==
  CHOOSE i \in 1..Len(rs) : ~isOk(rs[i]) /\ \A j \in 1..(i - 1) : isOk(rs[j])

\* the success values of rs, in input order
OkPayloads(rs) ==
  LET oks == SelectSeq(rs, LAMBDA r : isOk(r))
  IN [k \in 1..Len(oks) |-> oks[k].value]

\* the error payloads of rs, in input order
ErrPayloads(rs) ==
  LET errs == SelectSeq(rs, LAMBDA r : ~isOk(r))
  IN [k \in 1..Len(errs) |-> errs[k].error]

\* C1: collect(rs) is Ok iff every element of rs is Ok; when Ok, its value is
\* the elements' success values in input order, as long as rs; collect([]) is
\* Ok([]).
C1_CollectOkIffAllOk ==
  collectOut # NotRun =>
    /\ isOk(collectOut) <=> AllOk(results)
    /\ isOk(collectOut) =>
         /\ Len(collectOut.value) = Len(results)
         /\ \A i \in 1..Len(results) : collectOut.value[i] = results[i].value
    /\ results = <<>> => collectOut = ok(<<>>)

C1_Witness ==
  /\ collectOut # NotRun
  /\ Len(results) >= 2
  /\ isOk(collectOut)
  /\ collectOut.value[1] # collectOut.value[2]

\* C2: when rs holds at least one Err, collect(rs) equals the Err at the
\* smallest index of rs, whatever comes before or after it.
C2_CollectFirstErr ==
  (collectOut # NotRun /\ HasErr(results)) =>
    collectOut = results[FirstErrIndex(results)]

C2_Witness ==
  /\ collectOut # NotRun
  /\ Len(results) >= 3
  /\ isOk(results[1]) /\ ~isOk(results[2]) /\ ~isOk(results[3])
  /\ results[2] # results[3]
  /\ collectOut = results[2]

\* C3: collectAll(rs) is Err iff rs holds an Err; its payload is then all the
\* error payloads of rs in input order (as many as rs has Errs); otherwise it
\* is Ok of all the success values in input order; collectAll([]) is Ok([]).
C3_CollectAllAccumulates ==
  collectAllOut # NotRun =>
    /\ ~isOk(collectAllOut) <=> HasErr(results)
    /\ ~isOk(collectAllOut) =>
         /\ collectAllOut.error = ErrPayloads(results)
         /\ Len(collectAllOut.error) =
              Cardinality({i \in 1..Len(results) : ~isOk(results[i])})
         /\ DOMAIN collectAllOut = {"ok", "error"}
    /\ isOk(collectAllOut) => collectAllOut.value = OkPayloads(results)
    /\ results = <<>> => collectAllOut = ok(<<>>)

C3_Witness ==
  /\ collectAllOut # NotRun
  /\ Len(results) >= 3
  /\ ~isOk(results[1]) /\ isOk(results[2]) /\ ~isOk(results[3])
  /\ results[1] # results[3]
  /\ collectAllOut = err(<<results[1].error, results[3].error>>)

\* C4: partition(rs) returns both lists: ok is the success values and err the
\* error payloads of rs, each in input order, and their lengths add up to the
\* length of rs, also when a list is empty.
C4_PartitionSplits ==
  partitionOut # NotRun =>
    /\ DOMAIN partitionOut = {"ok", "err"}
    /\ partitionOut.ok = OkPayloads(results)
    /\ partitionOut.err = ErrPayloads(results)
    /\ Len(partitionOut.ok) + Len(partitionOut.err) = Len(results)

C4_Witness ==
  /\ partitionOut # NotRun
  /\ Len(results) >= 3
  /\ Len(partitionOut.ok) = 1
  /\ Len(partitionOut.err) = 2
  /\ partitionOut.err[1] # partitionOut.err[2]

\* C26: the three batch operations agree on every finite sequence: collect is
\* Ok iff collectAll is Ok iff partition's err list is empty, and then all
\* three report the same success list; when they are Err, collectAll's error
\* equals partition's err list and its first element equals collect's error.
C26_BatchOperationsAgree ==
  (collectOut # NotRun /\ collectAllOut # NotRun /\ partitionOut # NotRun) =>
    /\ isOk(collectOut) <=> isOk(collectAllOut)
    /\ isOk(collectAllOut) <=> (partitionOut.err = <<>>)
    /\ isOk(collectOut) =>
         /\ collectOut.value = collectAllOut.value
         /\ collectAllOut.value = partitionOut.ok
    /\ ~isOk(collectOut) =>
         /\ collectAllOut.error = partitionOut.err
         /\ collectAllOut.error[1] = collectOut.error

\* all three ran on Ok, Err, Ok, Err with two different errors
C26_Witness ==
  /\ collectOut # NotRun /\ collectAllOut # NotRun /\ partitionOut # NotRun
  /\ Len(results) = 4
  /\ isOk(results[1]) /\ ~isOk(results[2]) /\ isOk(results[3]) /\ ~isOk(results[4])
  /\ results[2] # results[4]
  /\ collectOut = results[2]
  /\ collectAllOut = err(<<results[2].error, results[4].error>>)
  /\ partitionOut.err = collectAllOut.error
  /\ partitionOut.ok = <<results[1].value, results[3].value>>

(***************************************************************************)
(* The source of a stream: an async generator going through its items      *)
(* (createStream).  It runs only while it serves a request, one at a time. *)
(***************************************************************************)
NoAnswer == [tag |-> "noanswer"]

NoFault == [tag |-> "nofault"]

\* what a faulty source throws
Fault == [fault |-> "source failed"]

Undefined == [undefined |-> TRUE]

IterYield(v) == [done |-> FALSE, value |-> v]

IterDone(v) == [done |-> TRUE, value |-> v]

SourceStart ==
  /\ srcPos = 0
  /\ srcDone = FALSE
  /\ srcPending = "none"
  /\ srcRequested = 0
  /\ srcReturnCalls = 0
  /\ answer = NoAnswer
  /\ raised = NoFault

\* stream.next(), as the for-await loop calls it
CallNext ==
  /\ srcRequested' = srcRequested + 1
  /\ srcPending' = "next"
  /\ answer' = NoAnswer
  /\ UNCHANGED <<src, srcFaulty, srcEndless, raised, srcPos, srcDone, srcReturnCalls>>

\* stream.return(), as the for-await loop calls it when its body is left early
CallReturn ==
  /\ srcReturnCalls' = srcReturnCalls + 1
  /\ srcPending' = "return"
  /\ answer' = NoAnswer
  /\ UNCHANGED <<src, srcFaulty, srcEndless, raised, srcPos, srcDone, srcRequested>>

\* the operation takes the answer and calls nothing
TakeAnswer ==
  /\ answer' = NoAnswer
  /\ UNCHANGED <<src, srcFaulty, srcEndless, raised, srcPos, srcDone, srcPending, srcRequested, srcReturnCalls>>

\* the generator reaches its next yield
SourceYield ==
  /\ srcPending = "next"
  /\ ~srcDone
  /\ srcPos < Len(src)
  /\ srcPos' = srcPos + 1
  /\ answer' = IterYield(src[srcPos + 1])
  /\ srcPending' = "none"
  /\ UNCHANGED <<src, srcFaulty, srcEndless, raised, srcDone, srcRequested, srcReturnCalls>>
  /\ UNCHANGED <<op, pc, values, errors, retval, resolved, consumerVars, batchVars, chainVars, adapterVars, serialVars>>

\* the generator of a source that never ends reaches a yield once more
SourceYieldAgain ==
  /\ srcPending = "next"
  /\ ~srcDone
  /\ srcEndless
  /\ srcPos >= Len(src)
  /\ srcPos < MaxPulls
  /\ srcPos' = srcPos + 1
  /\ answer' = IterYield(src[(srcPos % Len(src)) + 1])
  /\ srcPending' = "none"
  /\ UNCHANGED <<src, srcFaulty, srcEndless, raised, srcDone, srcRequested, srcReturnCalls>>
  /\ UNCHANGED <<op, pc, values, errors, retval, resolved, consumerVars, batchVars, chainVars, adapterVars, serialVars>>

\* the generator runs off the end of its items (or was completed before)
SourceEnd ==
  /\ srcPending = "next"
  /\ srcDone \/ (srcPos = Len(src) /\ ~srcFaulty /\ ~srcEndless)
  /\ srcDone' = TRUE
  /\ answer' = IterDone(Undefined)
  /\ srcPending' = "none"
  /\ UNCHANGED <<src, srcFaulty, srcEndless, raised, srcPos, srcRequested, srcReturnCalls>>
  /\ UNCHANGED <<op, pc, values, errors, retval, resolved, consumerVars, batchVars, chainVars, adapterVars, serialVars>>

\* return() completes the generator where it is suspended
SourceReturn ==
  /\ srcPending = "return"
  /\ srcDone' = TRUE
  /\ answer' = IterDone(Undefined)
  /\ srcPending' = "none"
  /\ UNCHANGED <<src, srcFaulty, srcEndless, raised, srcPos, srcRequested, srcReturnCalls>>
  /\ UNCHANGED <<op, pc, values, errors, retval, resolved, consumerVars, batchVars, chainVars, adapterVars, serialVars>>

\* the generator throws: the next() it was serving rejects and it is completed
SourceThrow ==
  /\ srcPending = "next"
  /\ ~srcDone
  /\ srcPos = Len(src)
  /\ srcFaulty
  /\ srcDone' = TRUE
  /\ raised' = Fault
  /\ srcPending' = "none"
  /\ UNCHANGED <<src, srcFaulty, srcEndless, srcPos, srcRequested, srcReturnCalls, answer>>
  /\ UNCHANGED <<op, pc, values, errors, retval, resolved, consumerVars, batchVars, chainVars, adapterVars, serialVars>>

\* the operation is resumed with the rejection of the next() it awaited
TakeFault ==
  /\ raised' = NoFault
  /\ UNCHANGED <<src, srcFaulty, srcEndless, srcPos, srcDone, srcPending, srcRequested, srcReturnCalls, answer>>

(***************************************************************************)
(* collectStream: each action is the code between two awaits.              *)
(***************************************************************************)
collectStreamCall ==
  /\ op = "collectStream"
  /\ pc = "init"
  /\ values' = <<>>
  /\ CallNext
  /\ pc' = "await"
  /\ UNCHANGED <<op, errors, retval, resolved, consumerVars, batchVars, chainVars, adapterVars, serialVars>>

\* collectStream whose loop goes on after an Err and reports it at the end
collectStreamResumeNoStop ==
  /\ op = "collectStream"
  /\ pc = "await"
  /\ answer # NoAnswer
  /\ IF answer.done
       THEN /\ resolved' = IF retval # NotRun THEN retval ELSE ok(values)
            /\ pc' = "done"
            /\ TakeAnswer
            /\ UNCHANGED <<values, retval>>
       ELSE IF ~isOk(answer.value)
       THEN /\ retval' = IF retval # NotRun THEN retval ELSE answer.value
            /\ CallNext
            /\ pc' = "await"
            /\ UNCHANGED <<values, resolved>>
       ELSE /\ values' = Append(values, answer.value.value)
            /\ CallNext
            /\ pc' = "await"
            /\ UNCHANGED <<retval, resolved>>
  /\ UNCHANGED <<op, errors, consumerVars, batchVars, chainVars, adapterVars, serialVars>>

\* collectStream that puts each value in front of the earlier ones
collectStreamResumeUnshift ==
  /\ op = "collectStream"
  /\ pc = "await"
  /\ answer # NoAnswer
  /\ IF answer.done
       THEN /\ resolved' = ok(values)
            /\ pc' = "done"
            /\ TakeAnswer
            /\ UNCHANGED <<values, retval>>
       ELSE IF ~isOk(answer.value)
       THEN /\ retval' = answer.value
            /\ CallReturn
            /\ pc' = "closing"
            /\ UNCHANGED <<values, resolved>>
       ELSE /\ values' = <<answer.value.value>> \o values
            /\ CallNext
            /\ pc' = "await"
            /\ UNCHANGED <<retval, resolved>>
  /\ UNCHANGED <<op, errors, consumerVars, batchVars, chainVars, adapterVars, serialVars>>

collectStreamResume ==
  /\ op = "collectStream"
  /\ pc = "await"
  /\ answer # NoAnswer
  /\ IF answer.done
       THEN /\ resolved' = ok(values)
            /\ pc' = "done"
            /\ TakeAnswer
            /\ UNCHANGED <<values, retval>>
       ELSE IF ~isOk(answer.value)
       THEN /\ retval' = answer.value
            /\ CallReturn
            /\ pc' = "closing"
            /\ UNCHANGED <<values, resolved>>
       ELSE /\ values' = Append(values, answer.value.value)
            /\ CallNext
            /\ pc' = "await"
            /\ UNCHANGED <<retval, resolved>>
  /\ UNCHANGED <<op, errors, consumerVars, batchVars, chainVars, adapterVars, serialVars>>

collectStreamClosed ==
  /\ op = "collectStream"
  /\ pc = "closing"
  /\ answer # NoAnswer
  /\ resolved' = retval
  /\ pc' = "done"
  /\ TakeAnswer
  /\ UNCHANGED <<op, values, errors, retval, consumerVars, batchVars, chainVars, adapterVars, serialVars>>

\* the awaited next() rejected: nothing catches it, the promise rejects
collectStreamRethrow ==
  /\ op = "collectStream"
  /\ pc = "await"
  /\ raised # NoFault
  /\ resolved' = Rejected(raised)
  /\ pc' = "done"
  /\ TakeFault
  /\ UNCHANGED <<op, values, errors, retval, consumerVars, batchVars, chainVars, adapterVars, serialVars>>

(***************************************************************************)
(* collectStreamAll                                                        *)
(***************************************************************************)
collectStreamAllCall ==
  /\ op = "collectStreamAll"
  /\ pc = "init"
  /\ values' = <<>>
  /\ errors' = <<>>
  /\ CallNext
  /\ pc' = "await"
  /\ UNCHANGED <<op, retval, resolved, consumerVars, batchVars, chainVars, adapterVars, serialVars>>

\* collectStreamAll that leaves the loop at the first Err
collectStreamAllResumeStops ==
  /\ op = "collectStreamAll"
  /\ pc = "await"
  /\ answer # NoAnswer
  /\ IF answer.done
       THEN /\ resolved' = IF Len(errors) > 0 THEN err(errors) ELSE ok(values)
            /\ pc' = "done"
            /\ TakeAnswer
            /\ UNCHANGED <<values, errors>>
       ELSE IF ~isOk(answer.value)
       THEN /\ errors' = Append(errors, answer.value.error)
            /\ resolved' = err(errors')
            /\ pc' = "done"
            /\ TakeAnswer
            /\ UNCHANGED values
       ELSE /\ values' = Append(values, answer.value.value)
            /\ CallNext
            /\ pc' = "await"
            /\ UNCHANGED <<errors, resolved>>
  /\ UNCHANGED <<op, retval, consumerVars, batchVars, chainVars, adapterVars, serialVars>>

collectStreamAllResume ==
  /\ op = "collectStreamAll"
  /\ pc = "await"
  /\ answer # NoAnswer
  /\ IF answer.done
       THEN /\ resolved' = IF Len(errors) > 0 THEN err(errors) ELSE ok(values)
            /\ pc' = "done"
            /\ TakeAnswer
            /\ UNCHANGED <<values, errors>>
       ELSE IF ~isOk(answer.value)
       THEN /\ errors' = Append(errors, answer.value.error)
            /\ CallNext
            /\ pc' = "await"
            /\ UNCHANGED <<values, resolved>>
       ELSE /\ values' = Append(values, answer.value.value)
            /\ CallNext
            /\ pc' = "await"
            /\ UNCHANGED <<errors, resolved>>
  /\ UNCHANGED <<op, retval, consumerVars, batchVars, chainVars, adapterVars, serialVars>>

\* the awaited next() rejected: nothing catches it, the promise rejects
collectStreamAllRethrow ==
  /\ op = "collectStreamAll"
  /\ pc = "await"
  /\ raised # NoFault
  /\ resolved' = Rejected(raised)
  /\ pc' = "done"
  /\ TakeFault
  /\ UNCHANGED <<op, values, errors, retval, consumerVars, batchVars, chainVars, adapterVars, serialVars>>

(***************************************************************************)
(* takeUntilErr: an async generator.  The consumer's next() calls queue    *)
(* up; the generator serves one at a time, running from where it is        *)
(* suspended to its next yield or return.                                  *)
(***************************************************************************)
\* the consumer calls next() on the generator
consumerNext ==
  /\ op = "takeUntilErr"
  /\ consumerReq < MaxLen + 2
  /\ consumerReq' = consumerReq + 1
  /\ queue' = queue + 1
  /\ UNCHANGED <<op, sourceVars, pc, values, errors, retval, resolved, delivered, batchVars, chainVars, adapterVars, serialVars>>

\* takeUntilErr that asks the source for the next element before it is asked
takeUntilErrResumeEager ==
  /\ op = "takeUntilErr"
  /\ pc \in {"suspendedStart", "suspendedYield"}
  /\ CallNext
  /\ pc' = "await"
  /\ UNCHANGED <<op, values, errors, retval, resolved, consumerVars, batchVars, chainVars, adapterVars, serialVars>>

\* the generator starts or resumes for the oldest request: the loop asks the source
takeUntilErrResume ==
  /\ op = "takeUntilErr"
  /\ pc \in {"suspendedStart", "suspendedYield"}
  /\ queue > 0
  /\ CallNext
  /\ pc' = "await"
  /\ UNCHANGED <<op, values, errors, retval, resolved, consumerVars, batchVars, chainVars, adapterVars, serialVars>>

\* takeUntilErr that passes over an Err and goes on with the next element
takeUntilErrBodySkipsErr ==
  /\ op = "takeUntilErr"
  /\ pc = "await"
  /\ answer # NoAnswer
  /\ IF answer.done
       THEN /\ delivered' = Append(delivered, IterDone(ok(Undefined)))
            /\ queue' = queue - 1
            /\ pc' = "completed"
            /\ TakeAnswer
            /\ UNCHANGED retval
       ELSE IF ~isOk(answer.value)
       THEN /\ CallNext
            /\ pc' = "await"
            /\ UNCHANGED <<delivered, queue, retval>>
       ELSE /\ delivered' = Append(delivered, IterYield(answer.value.value))
            /\ queue' = queue - 1
            /\ pc' = "suspendedYield"
            /\ TakeAnswer
            /\ UNCHANGED retval
  /\ UNCHANGED <<op, values, errors, resolved, consumerReq, batchVars, chainVars, adapterVars, serialVars>>

\* the source answered: the loop body, up to the yield or the return
takeUntilErrBody ==
  /\ op = "takeUntilErr"
  /\ pc = "await"
  /\ answer # NoAnswer
  /\ IF answer.done
       THEN /\ delivered' = Append(delivered, IterDone(ok(Undefined)))
            /\ queue' = queue - 1
            /\ pc' = "completed"
            /\ TakeAnswer
            /\ UNCHANGED retval
       ELSE IF ~isOk(answer.value)
       THEN /\ retval' = answer.value
            /\ CallReturn
            /\ pc' = "closing"
            /\ UNCHANGED <<delivered, queue>>
       ELSE /\ delivered' = Append(delivered, IterYield(answer.value.value))
            /\ queue' = queue - 1
            /\ pc' = "suspendedYield"
            /\ TakeAnswer
            /\ UNCHANGED retval
  /\ UNCHANGED <<op, values, errors, resolved, consumerReq, batchVars, chainVars, adapterVars, serialVars>>

\* the awaited next() rejected: the generator throws, which rejects the
\* request it was serving and completes it
takeUntilErrRethrow ==
  /\ op = "takeUntilErr"
  /\ pc = "await"
  /\ raised # NoFault
  /\ delivered' = Append(delivered, Rejected(raised))
  /\ queue' = queue - 1
  /\ pc' = "completed"
  /\ TakeFault
  /\ UNCHANGED <<op, values, errors, retval, resolved, consumerReq, batchVars, chainVars, adapterVars, serialVars>>

\* takeUntilErr that throws the Err it met
takeUntilErrClosedThrows ==
  /\ op = "takeUntilErr"
  /\ pc = "closing"
  /\ answer # NoAnswer
  /\ delivered' = Append(delivered, Rejected(retval))
  /\ queue' = queue - 1
  /\ pc' = "completed"
  /\ TakeAnswer
  /\ UNCHANGED <<op, values, errors, retval, resolved, consumerReq, batchVars, chainVars, adapterVars, serialVars>>

\* the source has closed: the generator completes with the Err it returned
takeUntilErrClosed ==
  /\ op = "takeUntilErr"
  /\ pc = "closing"
  /\ answer # NoAnswer
  /\ delivered' = Append(delivered, IterDone(retval))
  /\ queue' = queue - 1
  /\ pc' = "completed"
  /\ TakeAnswer
  /\ UNCHANGED <<op, values, errors, retval, resolved, consumerReq, batchVars, chainVars, adapterVars, serialVars>>

\* a request made of a completed generator is answered at once
takeUntilErrCompleted ==
  /\ op = "takeUntilErr"
  /\ pc = "completed"
  /\ queue > 0
  /\ delivered' = Append(delivered, IterDone(Undefined))
  /\ queue' = queue - 1
  /\ UNCHANGED <<op, sourceVars, pc, values, errors, retval, resolved, consumerReq, batchVars, chainVars, adapterVars, serialVars>>

\* the generator completes on return() and leaves the source as it is
consumerReturnLeavesSource ==
  /\ op = "takeUntilErr"
  /\ pc \in {"suspendedStart", "suspendedYield"}
  /\ queue = 0
  /\ retval' = Undefined
  /\ delivered' = Append(delivered, IterDone(Undefined))
  /\ pc' = "completed"
  /\ UNCHANGED <<op, sourceVars, values, errors, resolved, consumerReq, queue, batchVars, chainVars, adapterVars, serialVars>>

\* the consumer, having no request outstanding, calls return() on the
\* generator: one that has not started completes at once; one suspended on
\* the yield leaves the for-await loop there, which closes the source
consumerReturn ==
  /\ op = "takeUntilErr"
  /\ pc \in {"suspendedStart", "suspendedYield"}
  /\ queue = 0
  /\ retval' = Undefined
  /\ IF pc = "suspendedStart"
       THEN /\ delivered' = Append(delivered, IterDone(Undefined))
            /\ pc' = "completed"
            /\ UNCHANGED sourceVars
       ELSE /\ CallReturn
            /\ pc' = "abandoning"
            /\ UNCHANGED delivered
  /\ UNCHANGED <<op, values, errors, resolved, consumerReq, queue, batchVars, chainVars, adapterVars, serialVars>>

\* the source has closed: the generator completes with what return() was given
takeUntilErrAbandoned ==
  /\ op = "takeUntilErr"
  /\ pc = "abandoning"
  /\ answer # NoAnswer
  /\ delivered' = Append(delivered, IterDone(Undefined))
  /\ pc' = "completed"
  /\ TakeAnswer
  /\ UNCHANGED <<op, values, errors, retval, resolved, consumerReq, queue, batchVars, chainVars, adapterVars, serialVars>>

StreamOps == {"collectStream", "collectStreamAll", "takeUntilErr"}

StreamStart ==
  /\ SourceStart
  /\ pc = IF op = "takeUntilErr" THEN "suspendedStart" ELSE "init"
  /\ values = <<>>
  /\ errors = <<>>
  /\ retval = NotRun
  /\ resolved = NotRun
  /\ consumerReq = 0
  /\ queue = 0
  /\ delivered = <<>>

StreamIdle ==
  op = "none" /\ src = <<>> /\ srcFaulty = FALSE /\ srcEndless = FALSE /\ StreamStart

StreamNext ==
  \/ SourceYield \/ SourceEnd \/ SourceReturn
  \/ collectStreamCall \/ collectStreamResume \/ collectStreamClosed
  \/ collectStreamAllCall \/ collectStreamAllResume
  \/ consumerNext \/ takeUntilErrResume \/ takeUntilErrBody
  \/ takeUntilErrClosed \/ takeUntilErrCompleted

\* the same over a source that may throw
FaultyStreamNext ==
  \/ StreamNext
  \/ SourceThrow
  \/ collectStreamRethrow \/ collectStreamAllRethrow \/ takeUntilErrRethrow

(***************************************************************************)
(* What the stream consumers are expected to do, stated on the source.     *)
(***************************************************************************)
\* the elements of rs before its first Err (all of rs when it has none)
BeforeFirstErr(rs) ==
  IF HasErr(rs) THEN SubSeq(rs, 1, FirstErrIndex(rs) - 1) ELSE rs

\* the iterator results the consumer got before the generator completed
Yielded == SelectSeq(delivered, LAMBDA d : ~d.done)

\* C5: collectStream asks for one element at a time and, when the first Err of
\* the source is its k-th element, asks for exactly k elements, resolves to
\* that Err, and no element after the k-th is produced.
C5_CollectStreamStopsAtFirstErr ==
  op = "collectStream" =>
    /\ srcRequested - srcPos <= 1
    /\ HasErr(src) =>
         LET k == FirstErrIndex(src)
         IN /\ srcRequested <= k
            /\ srcPos <= k
            /\ pc = "done" =>
                 /\ resolved = src[k]
                 /\ srcRequested = k
                 /\ srcPos = k

C5_Witness ==
  /\ op = "collectStream"
  /\ pc = "done"
  /\ Len(src) = 4
  /\ isOk(src[1]) /\ isOk(src[2]) /\ ~isOk(src[3]) /\ isOk(src[4])
  /\ resolved = src[3]
  /\ srcPos = 3

\* C6: when the source ends without an Err, collectStream resolves to Ok of
\* all the yielded success values in arrival order; Ok([]) for an empty one.
C6_CollectStreamAllOk ==
  (op = "collectStream" /\ pc = "done" /\ AllOk(src)) =>
    /\ resolved = ok(OkPayloads(src))
    /\ src = <<>> => resolved = ok(<<>>)

C6_Witness ==
  /\ op = "collectStream"
  /\ pc = "done"
  /\ Len(src) >= 2
  /\ AllOk(src)
  /\ src[1] # src[2]
  /\ resolved = ok(OkPayloads(src))

\* C7: collectStreamAll never stops early: it never closes the source and,
\* until the source has signalled its end, a request is always outstanding or
\* answered; it resolves only then, every element having been asked for once,
\* to Err of all error payloads in arrival order if there is one, otherwise
\* to Ok of all success values in arrival order.
C7_CollectStreamAllDrains ==
  op = "collectStreamAll" =>
    /\ srcReturnCalls = 0
    /\ srcRequested - srcPos <= 1
    /\ pc = "await" => (srcPending = "next" \/ answer # NoAnswer)
    /\ pc \in {"init", "await", "done"}
    /\ pc = "done" =>
         /\ srcDone
         /\ srcPos = Len(src)
         /\ srcRequested = Len(src) + 1
         /\ resolved = IF HasErr(src) THEN err(ErrPayloads(src))
                                     ELSE ok(OkPayloads(src))

C7_Witness ==
  /\ op = "collectStreamAll"
  /\ pc = "done"
  /\ Len(src) = 4
  /\ isOk(src[1]) /\ ~isOk(src[2]) /\ isOk(src[3]) /\ ~isOk(src[4])
  /\ src[2] # src[4]
  /\ resolved = err(<<src[2].error, src[4].error>>)

\* C25: the stream consumers refine the batch collectors: over a source that
\* yields the elements of src in order and then ends, collectStream resolves
\* to a Result equal to collect(src) and collectStreamAll to a Result equal to
\* collectAll(src).
C25_StreamRefinesBatch ==
  resolved # NotRun =>
    /\ op = "collectStream" => resolved = collect(src)
    /\ op = "collectStreamAll" => resolved = collectAll(src)

\* collectStreamAll resolved over Err, Ok, Err, Ok as collectAll gives for the
\* same four elements, where collect gives another Result
C25_Witness ==
  /\ op = "collectStreamAll"
  /\ pc = "done"
  /\ Len(src) = 4
  /\ ~isOk(src[1]) /\ isOk(src[2]) /\ ~isOk(src[3]) /\ isOk(src[4])
  /\ src[1] # src[3]
  /\ resolved = collectAll(src)
  /\ resolved # collect(src)

\* a source, ending or not, under collectStream and collectStreamAll
EndlessNext ==
  \/ SourceYield \/ SourceYieldAgain \/ SourceEnd \/ SourceReturn
  \/ collectStreamCall \/ collectStreamResume \/ collectStreamClosed
  \/ collectStreamAllCall \/ collectStreamAllResume

\* the source answers every request it is able to answer
SourceAnswers == SourceYield \/ SourceYieldAgain \/ SourceEnd \/ SourceReturn

\* the job queue runs the continuation of an await once the promise settled
ContinuationRuns ==
  \/ collectStreamCall \/ collectStreamResume \/ collectStreamClosed
  \/ collectStreamAllCall \/ collectStreamAllResume

\* C27: collectStream eventually resolves whenever the source answers every
\* request and eventually yields an Err or ends, even if the source would go
\* on forever after that Err; over a source that only yields Ok and never
\* ends it stays pending.
C27_CollectStreamEventuallyResolves ==
  /\ (op = "collectStream" /\ (HasErr(src) \/ ~srcEndless)) ~> (resolved # NotRun)
  /\ []((op = "collectStream" /\ srcEndless /\ AllOk(src)) => resolved = NotRun)

\* collectStream resolved to the Err a never-ending source yielded third, on
\* its first time through its items
C27_Witness ==
  /\ op = "collectStream"
  /\ srcEndless
  /\ Len(src) = 3
  /\ isOk(src[1]) /\ isOk(src[2]) /\ ~isOk(src[3])
  /\ pc = "done"
  /\ resolved = src[3]
  /\ srcPos = 3

\* C28: collectStreamAll resolves only after the source has signalled its
\* end: over a source that never ends it never resolves, however many Errs it
\* has received, and it goes on requesting elements for as long as the source
\* is followed.
C28_CollectStreamAllNeedsTheEnd ==
  /\ []((op = "collectStreamAll" /\ resolved # NotRun) => (srcDone /\ ~srcEndless))
  /\ []((op = "collectStreamAll" /\ srcEndless) => (srcReturnCalls = 0 /\ pc # "done"))
  /\ (op = "collectStreamAll" /\ srcEndless) ~> (srcRequested = MaxPulls + 1)

\* collectStreamAll has received three Errs from a never-ending source, which
\* is on its second time through its items, and has a request outstanding
C28_Witness ==
  /\ op = "collectStreamAll"
  /\ srcEndless
  /\ Len(src) = 2
  /\ ~isOk(src[1]) /\ ~isOk(src[2])
  /\ Len(errors) = 3
  /\ errors[3] = errors[1]
  /\ srcPending = "next"
  /\ resolved = NotRun

\* collectStream and takeUntilErr, whose consumer may abandon it
AbandonNext ==
  \/ SourceYield \/ SourceEnd \/ SourceReturn
  \/ collectStreamCall \/ collectStreamResume \/ collectStreamClosed
  \/ consumerNext \/ takeUntilErrResume \/ takeUntilErrBody
  \/ takeUntilErrClosed \/ takeUntilErrCompleted
  \/ consumerReturn \/ takeUntilErrAbandoned

\* the operation has completed
Completed == pc \in {"done", "completed"}

\* the operation left its loop at an Err
StoppedAtErr == retval # NotRun /\ retval # Undefined

\* the consumer closed takeUntilErr's generator after it had yielded a value
Abandoned ==
  /\ op = "takeUntilErr"
  /\ retval = Undefined
  /\ delivered # <<>>
  /\ ~delivered[1].done

\* C29: early exit closes the source: when collectStream or takeUntilErr
\* stops at the first Err, and when the consumer closes takeUntilErr's
\* generator while it is suspended on a yielded value, the source's return()
\* is called once and has been answered before the operation completes, and
\* no element is requested from the source afterwards.
C29_EarlyExitClosesSource ==
  /\ []((StoppedAtErr \/ Abandoned) => srcReturnCalls = 1)
  /\ []((Completed /\ (StoppedAtErr \/ Abandoned)) => srcDone)
  /\ [][srcReturnCalls > 0 =>
          /\ srcRequested' = srcRequested
          /\ srcPos' = srcPos
          /\ srcReturnCalls' = srcReturnCalls]_vars

\* the consumer took one value of three and closed the generator: the source
\* was closed after its first element and the generator has completed
C29_Witness ==
  /\ op = "takeUntilErr"
  /\ Len(src) = 3
  /\ AllOk(src)
  /\ pc = "completed"
  /\ Len(delivered) = 2
  /\ ~delivered[1].done /\ delivered[1].value = src[1].value
  /\ delivered[2].done /\ delivered[2].value = Undefined
  /\ Abandoned
  /\ srcReturnCalls = 1
  /\ srcDone
  /\ srcPos = 1
  /\ srcRequested = 1

\* C8: takeUntilErr yields the success values that precede the first Err of
\* the source, in order, and nothing at or after it; it completes with that
\* Err as its return value (in a fulfilled iterator result), or with
\* Ok(undefined) after every value when the source has no Err.
C8_TakeUntilErrYields ==
  op = "takeUntilErr" =>
    LET expected == BeforeFirstErr(src)
    IN /\ Len(Yielded) <= Len(expected)
       /\ \A k \in 1..Len(Yielded) : Yielded[k].value = expected[k].value
       /\ \A k \in 1..Len(delivered) :
            delivered[k].done => \A j \in k..Len(delivered) : delivered[j].done
       /\ pc = "completed" =>
            /\ Len(Yielded) = Len(expected)
            /\ Len(delivered) > Len(expected)
            /\ delivered[Len(expected) + 1] =
                 IterDone(IF HasErr(src) THEN src[FirstErrIndex(src)]
                                         ELSE ok(Undefined))

C8_Witness ==
  /\ op = "takeUntilErr"
  /\ pc = "completed"
  /\ Len(src) = 4
  /\ isOk(src[1]) /\ isOk(src[2]) /\ ~isOk(src[3]) /\ isOk(src[4])
  /\ src[1] # src[2]
  /\ Len(delivered) >= 3
  /\ delivered[1] = IterYield(src[1].value)
  /\ delivered[2] = IterYield(src[2].value)
  /\ delivered[3] = IterDone(src[3])

\* C9: takeUntilErr asks the source only for a request of the consumer it is
\* serving, one source element per consumer request: the elements asked of
\* the source never outnumber the consumer's requests, nor the answered ones
\* by more than the one in flight.
C9_TakeUntilErrPullDriven ==
  op = "takeUntilErr" =>
    /\ srcRequested <= consumerReq
    /\ srcRequested <= Len(delivered) + (IF pc \in {"await", "closing"} THEN 1 ELSE 0)
    /\ srcRequested - srcPos <= 1
    /\ srcPending = "next" => queue > 0
    /\ Len(delivered) = consumerReq - queue

C9_Witness ==
  /\ op = "takeUntilErr"
  /\ pc = "await"
  /\ srcPending = "next"
  /\ queue >= 2
  /\ srcRequested = 2
  /\ Len(delivered) = 1

(***************************************************************************)
(* Option containers (option.ts).                                          *)
(***************************************************************************)
some(value) == [some |-> TRUE, value |-> value]

\* the module constant NONE; id tells one None object from another
NONE == [some |-> FALSE, id |-> 0]

\* { some: false } written out by a caller: a None that is not NONE
NoneLiteral == [some |-> FALSE, id |-> 1]

\* none() that makes a None for each call
noneFresh == [some |-> FALSE, id |-> Len(trace) + 2]

\* none()
none == NONE

isSome(option) == option.some = TRUE

(***************************************************************************)
(* The functions a caller passes to the chain methods.                     *)
(***************************************************************************)
\* Payloads of the chained containers are boxed, so that a number, a text and a
\* nested container can stand in the same place.
Num(n) == [num |-> n]

Str(s) == [str |-> s]

\* 0 is the falsy payload
ChainVals == {Num(n) : n \in 0..MaxVal}

ChainErrs == {Str(e) : e \in Errs}

ChainResults == {ok(v) : v \in ChainVals} \cup {err(e) : e \in ChainErrs}

Apply(fn, v) ==
  CASE fn = "inc" -> Num((v.num % MaxVal) + 1)
    [] fn = "const1" -> Num(1)
    [] fn = "wrapOk" -> ok(v)
    [] fn = "wrapSome" -> some(v)
    [] fn = "toOk" -> ok(v)
    [] fn = "fail" -> err(Str("stopped"))
    [] fn = "toSome" -> some(v)
    [] fn = "toNone" -> none
    [] fn = "toNoneLiteral" -> NoneLiteral
    [] fn = "prefix" -> [prefix |-> "Error: ", of |-> v]
    [] fn = "isOne" -> v = Num(1)
    [] fn = "always" -> TRUE
    [] fn = "never" -> FALSE
    [] fn = "identity" -> v
    [] fn = "recover" -> Num(MaxVal)

\* one invocation of a user function, as the call counter sees it
Invocation(fn, arg) == [fn |-> fn, arg |-> arg]

\* what a chain method returns: the receiver itself, or a new wrapper from(data)
This(data) == [self |-> TRUE, data |-> data, invoked |-> <<>>]

From(data, invoked) == [self |-> FALSE, data |-> data, invoked |-> invoked]

\* what an accessor or unwrapping method does: it returns a value or throws one
Return(v, invoked) == [out |-> [kind |-> "return", value |-> v], invoked |-> invoked]

Throw(e) == [out |-> [kind |-> "throw", value |-> e], invoked |-> <<>>]

\* new Error(message)
Error(message) == [name |-> "Error", message |-> message]

\* the argument list of a function called with no argument
NoArg == [noarg |-> TRUE]

(***************************************************************************)
(* ResultChain methods, as functions of the receiver's #data.              *)
(***************************************************************************)
\* map that calls fn whatever the receiver holds
ResultChain_mapAlways(data, fn) ==
  IF data.ok
    THEN From(ok(Apply(fn, data.value)), <<Invocation(fn, data.value)>>)
    ELSE From(data, <<Invocation(fn, Undefined)>>)

ResultChain_map(data, fn) ==
  IF data.ok
    THEN From(ok(Apply(fn, data.value)), <<Invocation(fn, data.value)>>)
    ELSE This(data)

ResultChain_mapErr(data, fn) ==
  IF data.ok
    THEN This(data)
    ELSE From(err(Apply(fn, data.error)), <<Invocation(fn, data.error)>>)

ResultChain_flatMap(data, fn) ==
  IF data.ok
    THEN From(Apply(fn, data.value), <<Invocation(fn, data.value)>>)
    ELSE This(data)

\* flatten that maps where it should flatMap
ResultChain_flattenAsMap(data) == ResultChain_map(data, "identity")

ResultChain_flatten(data) == ResultChain_flatMap(data, "identity")

\* the value getter that hands out whatever field it finds
ResultChain_valueNoThrow(data) ==
  IF ~data.ok THEN Return(Undefined, <<>>) ELSE Return(data.value, <<>>)

ResultChain_value(data) ==
  IF ~data.ok THEN Throw(Error("Cannot access value on Err"))
  ELSE Return(data.value, <<>>)

ResultChain_error(data) ==
  IF data.ok THEN Throw(Error("Cannot access error on Ok"))
  ELSE Return(data.error, <<>>)

\* unwrap that throws an error of its own in place of the held one
ResultChain_unwrapWraps(data) ==
  IF data.ok THEN Return(data.value, <<>>)
  ELSE Throw(Error("Called unwrap on Err"))

ResultChain_unwrap(data) ==
  IF data.ok THEN Return(data.value, <<>>) ELSE Throw(data.error)

\* unwrapOr written with || : a falsy value gives way to the default
ResultChain_unwrapOrFalsy(data, defaultValue) ==
  Return(IF data.ok /\ data.value # Num(0) THEN data.value ELSE defaultValue, <<>>)

ResultChain_unwrapOr(data, defaultValue) ==
  Return(IF data.ok THEN data.value ELSE defaultValue, <<>>)

ResultChain_unwrapOrElse(data, fn) ==
  IF data.ok THEN Return(data.value, <<>>)
  ELSE Return(Apply(fn, data.error), <<Invocation(fn, data.error)>>)

ResultChain_unwrapErr(data) ==
  IF ~data.ok THEN Return(data.error, <<>>)
  ELSE Throw(Error("Called unwrapErr on Ok"))

ResultChain_and(data, other) ==
  IF data.ok THEN From(other, <<>>) ELSE This(data)

\* or that wraps a container whatever the receiver holds
ResultChain_orAlways(data, other) ==
  From(IF data.ok THEN data ELSE other, <<>>)

ResultChain_or(data, other) ==
  IF data.ok THEN This(data) ELSE From(other, <<>>)

(***************************************************************************)
(* OptionChain methods, as functions of the receiver's #data.              *)
(***************************************************************************)
\* map that takes what fn returns for the new option
OptionChain_mapUnwrapped(data, fn) ==
  IF data.some
    THEN From(Apply(fn, data.value), <<Invocation(fn, data.value)>>)
    ELSE This(data)

OptionChain_map(data, fn) ==
  IF data.some
    THEN From(some(Apply(fn, data.value)), <<Invocation(fn, data.value)>>)
    ELSE This(data)

OptionChain_flatMap(data, fn) ==
  IF data.some
    THEN From(Apply(fn, data.value), <<Invocation(fn, data.value)>>)
    ELSE This(data)

OptionChain_flatten(data) == OptionChain_flatMap(data, "identity")

\* filter that keeps every Some, whatever the predicate says
OptionChain_filterKeeps(data, predicate) ==
  IF data.some
    THEN [This(data) EXCEPT !.invoked = <<Invocation(predicate, data.value)>>]
    ELSE From(none, <<>>)

OptionChain_filter(data, predicate) ==
  IF data.some
    THEN IF Apply(predicate, data.value)
           THEN [This(data) EXCEPT !.invoked = <<Invocation(predicate, data.value)>>]
           ELSE From(none, <<Invocation(predicate, data.value)>>)
    ELSE From(none, <<>>)

OptionChain_value(data) ==
  IF ~data.some THEN Throw(Error("Cannot access value on None"))
  ELSE Return(data.value, <<>>)

OptionChain_unwrap(data) ==
  IF data.some THEN Return(data.value, <<>>)
  ELSE Throw(Error("Attempted to unwrap None"))

OptionChain_unwrapOr(data, defaultValue) ==
  Return(IF data.some THEN data.value ELSE defaultValue, <<>>)

OptionChain_unwrapOrElse(data, fn) ==
  IF data.some THEN Return(data.value, <<>>)
  ELSE Return(Apply(fn, NoArg), <<Invocation(fn, NoArg)>>)

\* a boolean, boxed like the payloads
Bool(b) == [bool |-> b]

ResultChain_toResult(data) == data

OptionChain_toOption(data) == data

OptionChain_isSome(data) == Return(Bool(data.some), <<>>)

\* what calling a property that is not there throws
TypeError(message) == [name |-> "TypeError", message |-> message]

\* isNone(): the class defines no such method, so the call finds undefined
OptionChain_isNone(data) == Throw(TypeError("isNone is not a function"))

\* arms names the functions under some: and none:
OptionChain_match(data, arms) ==
  IF data.some
    THEN Return(Apply(arms.some, data.value), <<Invocation(arms.some, data.value)>>)
    ELSE Return(Apply(arms.none, NoArg), <<Invocation(arms.none, NoArg)>>)

OptionChain_toResult(data, error) ==
  Return(IF data.some THEN ok(data.value) ELSE err(error), <<>>)

OptionChain_or(data, other) ==
  IF data.some THEN This(data) ELSE From(other, <<>>)

OptionChain_and(data, other) ==
  IF data.some THEN From(other, <<>>) ELSE This(data)

(***************************************************************************)
(* A chain of calls: each call is made on the wrapper the last one         *)
(* returned.  The functions passed fit the static type of the receiver.    *)
(***************************************************************************)
MapFns(d) == {"const1", "identity"} \cup (IF d = 0 THEN {"inc"} ELSE {})

WrapFn == IF side = "result" THEN "wrapOk" ELSE "wrapSome"

FnDepth(fn, d) ==
  IF fn \in {"wrapOk", "wrapSome"} THEN d + 1 ELSE IF fn = "identity" THEN d ELSE 0

Predicates(d) == {"always", "never"} \cup (IF d = 0 THEN {"isOne"} ELSE {})

\* a call that puts the new container in the receiver and returns the receiver
ReturnedInPlace(r, name, fn) ==
  /\ Len(trace) < MaxSteps
  /\ heap' = [heap EXCEPT ![cur] = r.data]
  /\ cur' = cur
  /\ calls' = calls + Len(r.invoked)
  /\ trace' = Append(trace, [op |-> name, fn |-> fn, recv |-> cur, ret |-> cur,
                             invoked |-> r.invoked, callsBefore |-> calls])
  /\ UNCHANGED <<side, batchVars, streamVars, adapterVars, serialVars>>

\* the call returned r: the wrapper from() created joins the heap
Returned(r, name, fn) ==
  /\ Len(trace) < MaxSteps
  /\ IF r.self
       THEN heap' = heap /\ cur' = cur
       ELSE heap' = Append(heap, r.data) /\ cur' = Len(heap) + 1
  /\ calls' = calls + Len(r.invoked)
  /\ trace' = Append(trace, [op |-> name, fn |-> fn, recv |-> cur, ret |-> cur',
                             invoked |-> r.invoked, callsBefore |-> calls])
  /\ UNCHANGED <<side, batchVars, streamVars, adapterVars, serialVars>>

ResultChain_mapCall ==
  /\ side = "result"
  /\ \E fn \in MapFns(tdepth) \cup {WrapFn} :
       /\ Returned(ResultChain_map(heap[cur], fn), "map", fn)
       /\ tdepth' = FnDepth(fn, tdepth)

ResultChain_mapErrCall ==
  /\ side = "result"
  /\ Returned(ResultChain_mapErr(heap[cur], "prefix"), "mapErr", "prefix")
  /\ UNCHANGED tdepth

ResultChain_flatMapCall ==
  /\ side = "result"
  /\ \E fn \in {"toOk", "fail"} \cup (IF tdepth > 0 THEN {"identity"} ELSE {}) :
       /\ Returned(ResultChain_flatMap(heap[cur], fn), "flatMap", fn)
       /\ tdepth' = IF fn = "identity" THEN tdepth - 1 ELSE tdepth

ResultChain_flattenCall ==
  /\ side = "result"
  /\ tdepth > 0
  /\ Returned(ResultChain_flatten(heap[cur]), "flatten", "identity")
  /\ tdepth' = tdepth - 1

OptionChain_mapCall ==
  /\ side = "option"
  /\ \E fn \in MapFns(tdepth) \cup {WrapFn} :
       /\ Returned(OptionChain_map(heap[cur], fn), "map", fn)
       /\ tdepth' = FnDepth(fn, tdepth)

OptionChain_flatMapCall ==
  /\ side = "option"
  /\ \E fn \in {"toSome", "toNone", "toNoneLiteral"}
                \cup (IF tdepth > 0 THEN {"identity"} ELSE {}) :
       /\ Returned(OptionChain_flatMap(heap[cur], fn), "flatMap", fn)
       /\ tdepth' = IF fn = "identity" THEN tdepth - 1 ELSE tdepth

OptionChain_flattenCall ==
  /\ side = "option"
  /\ tdepth > 0
  /\ Returned(OptionChain_flatten(heap[cur]), "flatten", "identity")
  /\ tdepth' = tdepth - 1

OptionChain_filterCall ==
  /\ side = "option"
  /\ \E predicate \in Predicates(tdepth) :
       Returned(OptionChain_filter(heap[cur], predicate), "filter", predicate)
  /\ UNCHANGED tdepth

\* the containers passed to and(other) / or(other): other's payload is of the
\* plain type for and, of the receiver's type for or (an Err or None fits any)
ResultOthers(d) == IF d = 0 THEN ChainResults ELSE {err(e) : e \in ChainErrs}

OptionOthers(d) == IF d = 0 THEN {some(v) : v \in ChainVals} \cup {none} ELSE {none}

ResultChain_andCall ==
  /\ side = "result"
  /\ \E other \in ResultOthers(0) :
       Returned(ResultChain_and(heap[cur], other), "and", "other")
  /\ tdepth' = 0

ResultChain_orCall ==
  /\ side = "result"
  /\ \E other \in ResultOthers(tdepth) :
       Returned(ResultChain_or(heap[cur], other), "or", "other")
  /\ UNCHANGED tdepth

OptionChain_orCall ==
  /\ side = "option"
  /\ \E other \in OptionOthers(tdepth) :
       Returned(OptionChain_or(heap[cur], other), "or", "other")
  /\ UNCHANGED tdepth

OptionChain_andCall ==
  /\ side = "option"
  /\ \E other \in OptionOthers(0) :
       Returned(OptionChain_and(heap[cur], other), "and", "other")
  /\ tdepth' = 0

\* an accessor or unwrapping method was called on cur and ended as r says
Finished(r, name, fn, arg) ==
  /\ Len(trace) < MaxSteps
  /\ calls' = calls + Len(r.invoked)
  /\ trace' = Append(trace, [op |-> name, fn |-> fn, arg |-> arg, recv |-> cur,
                             ret |-> cur, invoked |-> r.invoked,
                             callsBefore |-> calls, out |-> r.out])
  /\ UNCHANGED <<side, heap, cur, tdepth, batchVars, streamVars, adapterVars, serialVars>>

\* the defaults passed to unwrapOr: values of the receiver's payload type
ResultDefaults(d) == IF d = 0 THEN ChainVals ELSE {err(e) : e \in ChainErrs}

OptionDefaults(d) == IF d = 0 THEN ChainVals ELSE {none}

ResultChain_valueCall ==
  /\ side = "result"
  /\ Finished(ResultChain_value(heap[cur]), "value", "none", NoArg)

ResultChain_errorCall ==
  /\ side = "result"
  /\ Finished(ResultChain_error(heap[cur]), "error", "none", NoArg)

ResultChain_unwrapCall ==
  /\ side = "result"
  /\ Finished(ResultChain_unwrap(heap[cur]), "unwrap", "none", NoArg)

ResultChain_unwrapOrCall ==
  /\ side = "result"
  /\ \E defaultValue \in ResultDefaults(tdepth) :
       Finished(ResultChain_unwrapOr(heap[cur], defaultValue), "unwrapOr", "none",
                defaultValue)

ResultChain_unwrapOrElseCall ==
  /\ side = "result"
  /\ tdepth = 0
  /\ Finished(ResultChain_unwrapOrElse(heap[cur], "recover"), "unwrapOrElse",
              "recover", NoArg)

ResultChain_unwrapErrCall ==
  /\ side = "result"
  /\ Finished(ResultChain_unwrapErr(heap[cur]), "unwrapErr", "none", NoArg)

OptionChain_valueCall ==
  /\ side = "option"
  /\ Finished(OptionChain_value(heap[cur]), "value", "none", NoArg)

OptionChain_unwrapCall ==
  /\ side = "option"
  /\ Finished(OptionChain_unwrap(heap[cur]), "unwrap", "none", NoArg)

OptionChain_unwrapOrCall ==
  /\ side = "option"
  /\ \E defaultValue \in OptionDefaults(tdepth) :
       Finished(OptionChain_unwrapOr(heap[cur], defaultValue), "unwrapOr", "none",
                defaultValue)

OptionChain_unwrapOrElseCall ==
  /\ side = "option"
  /\ tdepth = 0
  /\ Finished(OptionChain_unwrapOrElse(heap[cur], "recover"), "unwrapOrElse",
              "recover", NoArg)

\* none(), called between two calls of the chain
noneCall ==
  /\ side = "option"
  /\ Finished(Return(none, <<>>), "none", "none", NoArg)

\* isSome(option), called on the option the wrapper holds
isSomeCall ==
  /\ side = "option"
  /\ Finished(Return(Bool(isSome(OptionChain_toOption(heap[cur]))), <<>>), "isSome",
              "none", NoArg)

OptionChain_isSomeCall ==
  /\ side = "option"
  /\ Finished(OptionChain_isSome(heap[cur]), "OptionChain.isSome", "none", NoArg)

OptionChain_isNoneCall ==
  /\ side = "option"
  /\ Finished(OptionChain_isNone(heap[cur]), "isNone", "none", NoArg)

OptionChain_matchCall ==
  /\ side = "option"
  /\ Finished(OptionChain_match(heap[cur], [some |-> "const1", none |-> "recover"]),
              "match", "const1", NoArg)

OptionChain_toResultCall ==
  /\ side = "option"
  /\ \E error \in ChainErrs :
       Finished(OptionChain_toResult(heap[cur], error), "toResult", "none", error)

\* chain(result) / chainOption(option): the containers a chain starts from
ChainStarts ==
  {<<"result", d, 0>> : d \in ChainResults}
    \cup {<<"result", ok(d), 1>> : d \in ChainResults}
    \cup {<<"result", err(e), 1>> : e \in ChainErrs}
    \cup {<<"option", some(v), 0>> : v \in ChainVals}
    \cup {<<"option", none, 0>>, <<"option", none, 1>>, <<"option", some(none), 1>>}
    \cup {<<"option", NoneLiteral, 0>>}
    \cup {<<"option", some(some(v)), 1>> : v \in ChainVals}

ChainStart ==
  /\ cur = 1
  /\ calls = 0
  /\ trace = <<>>

ChainIdle == side = "none" /\ heap = <<>> /\ tdepth = 0 /\ ChainStart

ChainNext ==
  \/ ResultChain_mapCall \/ ResultChain_mapErrCall
  \/ ResultChain_flatMapCall \/ ResultChain_flattenCall
  \/ OptionChain_mapCall \/ OptionChain_flatMapCall
  \/ OptionChain_flattenCall \/ OptionChain_filterCall
  \/ ResultChain_andCall \/ ResultChain_orCall
  \/ OptionChain_orCall \/ OptionChain_andCall
  \/ ResultChain_valueCall \/ ResultChain_errorCall \/ ResultChain_unwrapCall
  \/ ResultChain_unwrapOrCall \/ ResultChain_unwrapOrElseCall
  \/ ResultChain_unwrapErrCall
  \/ OptionChain_valueCall \/ OptionChain_unwrapCall
  \/ OptionChain_unwrapOrCall \/ OptionChain_unwrapOrElseCall

\* a container or a payload x: how many containers are nested in its payload,
\* counting a failure as holding none
RECURSIVE NestingOf(_)
NestingOf(x) ==
  IF "ok" \in DOMAIN x
    THEN IF x.ok THEN 1 + NestingOf(x.value) ELSE 1
    ELSE IF "some" \in DOMAIN x
           THEN IF x.some THEN 1 + NestingOf(x.value) ELSE 1
           ELSE 0

\* the caller turns to a wrapper it kept, for its next call
keptWrapper ==
  /\ \E w \in DOMAIN heap \ {cur} :
       /\ cur' = w
       /\ tdepth' = NestingOf(heap[w]) - 1
  /\ UNCHANGED <<side, heap, calls, trace, batchVars, streamVars, adapterVars, serialVars>>

\* calls that make wrappers, calls that throw, and calls on wrappers kept
FrameNext ==
  \/ ResultChain_mapCall \/ ResultChain_flatMapCall \/ ResultChain_unwrapErrCall
  \/ OptionChain_filterCall \/ OptionChain_unwrapCall
  \/ keptWrapper

\* an option through transformations, none() and the checks of absence
AbsenceNext ==
  \/ OptionChain_mapCall \/ OptionChain_flatMapCall \/ OptionChain_filterCall
  \/ OptionChain_unwrapOrCall
  \/ noneCall \/ isSomeCall \/ OptionChain_isSomeCall \/ OptionChain_isNoneCall
  \/ OptionChain_matchCall \/ OptionChain_toResultCall

(***************************************************************************)
(* What a chain of calls is expected to do, stated on its trace.           *)
(***************************************************************************)
\* the methods that pass a failure on
ShortCircuitOps == {"map", "flatMap", "flatten", "filter"}

\* the container is the failed variant: Err, or None
Failed(data) == IF side = "result" THEN ~data.ok ELSE ~data.some

\* b is the failure a is: the same Err with its payload, or None (filter hands
\* on the canonical None for whichever None it met)
SameFailure(a, b) == IF side = "result" THEN b = a ELSE ~a.some /\ ~b.some

\* C10: once the wrapper a map/flatMap/flatten (or filter) call is made on
\* holds Err (None), the call invokes no function and returns a wrapper
\* holding the same Err (None); a chain of such calls invokes no function from
\* there on and ends holding that Err, payload unchanged.
C10_ShortCircuit ==
  \A i \in 1..Len(trace) :
    (trace[i].op \in ShortCircuitOps /\ Failed(heap[trace[i].recv])) =>
      /\ trace[i].invoked = <<>>
      /\ SameFailure(heap[trace[i].recv], heap[trace[i].ret])
      /\ (\A j \in i..Len(trace) : trace[j].op \in ShortCircuitOps) =>
           /\ calls = trace[i].callsBefore
           /\ SameFailure(heap[trace[i].recv], heap[cur])

C10_Witness ==
  /\ side = "result"
  /\ Len(trace) = 3
  /\ trace[1].op = "map" /\ trace[1].invoked # <<>>
  /\ trace[2].op = "flatMap" /\ trace[2].fn = "fail" /\ trace[2].invoked # <<>>
  /\ trace[3].op = "map" /\ trace[3].invoked = <<>>
  /\ calls = 2
  /\ heap[cur] = err(Str("stopped"))

\* the transformation and combinator methods of the two wrappers
ChainOps == {"map", "mapErr", "flatMap", "flatten", "filter", "and", "or"}

\* the call makes a container of its own: it does not pass the receiver's on
Transforms(t) ==
  LET data == heap[t.recv]
  IN CASE t.op \in {"map", "flatMap", "flatten", "and"} -> ~Failed(data)
       [] t.op \in {"mapErr", "or"} -> Failed(data)
       [] t.op = "filter" -> ~(data.some /\ Apply(t.fn, data.value))

\* C11 as stated: every transformation or combinator call returns a wrapper
\* distinct from its receiver, whatever the receiver holds.
C11_AlwaysNewWrapper ==
  \A i \in 1..Len(trace) :
    trace[i].op \in ChainOps => trace[i].ret # trace[i].recv

\* C11 amended: a call returns a new wrapper, distinct from every earlier one,
\* exactly when it makes a container of its own (map, flatMap, flatten, and on
\* Ok/Some; mapErr, or on Err/None; filter unless the predicate holds); when
\* it passes the receiver's container on it returns the receiver itself.
C11_NewWrapperIffTransforms ==
  \A i \in 1..Len(trace) :
    trace[i].op \in ChainOps =>
      IF Transforms(trace[i])
        THEN /\ trace[i].ret > trace[i].recv
             /\ \A j \in 1..(i - 1) : trace[j].ret < trace[i].ret
        ELSE trace[i].ret = trace[i].recv

C11_Witness ==
  /\ Len(trace) >= 3
  /\ \E i, j \in 1..Len(trace) :
       /\ trace[i].op = "map" /\ trace[i].ret = trace[i].recv
       /\ trace[j].op = "or" /\ trace[j].ret # trace[j].recv

\* the outcome of a call, as its caller sees it
Returns(v) == [kind |-> "return", value |-> v]

Throws(e) == [kind |-> "throw", value |-> e]

\* C12: ResultChain.unwrap() returns the success value on Ok and, on Err(e),
\* throws e itself, not an error made for the occasion.
C12_UnwrapThrowsHeldError ==
  \A i \in 1..Len(trace) :
    (side = "result" /\ trace[i].op = "unwrap") =>
      LET data == heap[trace[i].recv]
      IN trace[i].out = IF data.ok THEN Returns(data.value) ELSE Throws(data.error)

C12_Witness ==
  /\ side = "result"
  /\ \E i, j \in 1..Len(trace) :
       /\ trace[i].op = "mapErr" /\ trace[i].invoked # <<>>
       /\ j > i
       /\ trace[j].op = "unwrap"
       /\ trace[j].out = Throws(Apply("prefix", Str("x")))

\* C13: unwrapOr and unwrapOrElse never throw; on Ok/Some they return the
\* held value, a falsy one too, and call no function; on Err/None they return
\* the default, or what the function returns, called once (with the held
\* error on the Result side, with no argument on the Option side).
C13_UnwrapOrNeverThrows ==
  \A i \in 1..Len(trace) :
    trace[i].op \in {"unwrapOr", "unwrapOrElse"} =>
      LET t == trace[i]
          data == heap[t.recv]
          passed == IF side = "result" THEN data.error ELSE NoArg
      IN /\ t.out.kind = "return"
         /\ ~Failed(data) => t.out.value = data.value /\ t.invoked = <<>>
         /\ (Failed(data) /\ t.op = "unwrapOr") =>
              t.out.value = t.arg /\ t.invoked = <<>>
         /\ (Failed(data) /\ t.op = "unwrapOrElse") =>
              /\ t.invoked = <<Invocation(t.fn, passed)>>
              /\ t.out.value = Apply(t.fn, passed)

C13_Witness ==
  /\ side = "result"
  /\ \E i, j \in 1..Len(trace) :
       /\ trace[i].op = "unwrapOr"
       /\ heap[trace[i].recv] = ok(Num(0))
       /\ trace[i].arg = Num(1)
       /\ trace[i].out = Returns(Num(0))
       /\ trace[j].op = "unwrapOrElse"
       /\ Failed(heap[trace[j].recv])
       /\ Len(trace[j].invoked) = 1

\* C14: value on Err, error on Ok, unwrapErr on Ok (ResultChain), value on
\* None and unwrap on None (OptionChain) throw an Error with a fixed message
\* that holds none of the user's data; on the matching variant each returns
\* the held payload.
WrongVariantMessage(name) ==
  IF side = "result"
    THEN CASE name = "value" -> "Cannot access value on Err"
           [] name = "error" -> "Cannot access error on Ok"
           [] name = "unwrapErr" -> "Called unwrapErr on Ok"
    ELSE CASE name = "value" -> "Cannot access value on None"
           [] name = "unwrap" -> "Attempted to unwrap None"

C14_WrongVariantAccess ==
  \A i \in 1..Len(trace) :
    LET t == trace[i]
        data == heap[t.recv]
    IN /\ (side = "result" /\ t.op = "value") =>
            t.out = IF data.ok THEN Returns(data.value)
                               ELSE Throws(Error(WrongVariantMessage("value")))
       /\ (side = "result" /\ t.op \in {"error", "unwrapErr"}) =>
            t.out = IF ~data.ok THEN Returns(data.error)
                                ELSE Throws(Error(WrongVariantMessage(t.op)))
       /\ (side = "option" /\ t.op \in {"value", "unwrap"}) =>
            t.out = IF data.some THEN Returns(data.value)
                                 ELSE Throws(Error(WrongVariantMessage(t.op)))

C14_Witness ==
  /\ side = "result"
  /\ Len(trace) >= 3
  /\ trace[1].op = "value" /\ trace[1].out.kind = "return"
  /\ trace[2].op = "flatMap" /\ trace[2].fn = "fail"
  /\ trace[3].op = "value"
  /\ trace[3].out = Throws(Error("Cannot access value on Err"))

\* the calls k..j of the trace are all filter calls
FilterRun(k, j) == \A m \in k..j : trace[m].op = "filter"

\* C18: filter(p) on Some(v) with p(v) true returns the receiver itself, still
\* Some(v), and calls p once; on Some(v) with p(v) false, or on None, it
\* returns a new wrapper over the canonical None, and p is not called on None;
\* after a run of filters on Some(v) the result is Some(v) iff every predicate
\* of the run holds for v.
C18_Filter ==
  /\ \A i \in DOMAIN trace :
       trace[i].op = "filter" =>
         LET t == trace[i]
             d == heap[t.recv]
         IN IF d.some /\ Apply(t.fn, d.value)
              THEN /\ t.ret = t.recv
                   /\ heap[t.ret] = d
                   /\ t.invoked = <<Invocation(t.fn, d.value)>>
              ELSE /\ t.ret # t.recv
                   /\ heap[t.ret] = NONE
                   /\ t.invoked = IF d.some THEN <<Invocation(t.fn, d.value)>> ELSE <<>>
  /\ \A k \in DOMAIN trace : \A j \in k..Len(trace) :
       (FilterRun(k, j) /\ heap[trace[k].recv].some) =>
         LET d == heap[trace[k].recv]
             all == \A m \in k..j : Apply(trace[m].fn, d.value)
         IN /\ heap[trace[j].ret].some <=> all
            /\ all => heap[trace[j].ret] = d

\* Some(1) went through a filter that holds, another that holds, and one that
\* fails: the first two returned the receiver, the third a wrapper over NONE
C18_Witness ==
  /\ side = "option"
  /\ heap[1] = some(Num(1))
  /\ Len(trace) = 3
  /\ FilterRun(1, 3)
  /\ trace[1].fn = "always" /\ trace[1].ret = 1
  /\ trace[2].fn = "isOne" /\ trace[2].ret = 1
  /\ trace[3].fn = "never" /\ trace[3].ret = 2
  /\ heap[2] = NONE
  /\ calls = 3

\* the calls that ask whether an option is absent
AbsenceChecks == {"isSome", "OptionChain.isSome", "match", "unwrapOr", "toResult"}

\* what a check of absence gives on an absent option, whichever object it is
OnAbsent(t) ==
  CASE t.op \in {"isSome", "OptionChain.isSome"} -> Returns(Bool(FALSE))
    [] t.op = "match" -> Returns(Apply("recover", NoArg))
    [] t.op = "unwrapOr" -> Returns(t.arg)
    [] t.op = "toResult" -> Returns(err(t.arg))

\* C19: none() returns the same instance, NONE, on every call, whatever was
\* called before; and two absent options, NONE or not, get the same answer
\* from every check of absence: isSome, OptionChain.isSome, match, unwrapOr
\* and toResult.
C19_NoneSingleton ==
  /\ \A i \in DOMAIN trace : trace[i].op = "none" => trace[i].out = Returns(NONE)
  /\ \A i, j \in DOMAIN trace :
       (trace[i].op = "none" /\ trace[j].op = "none") =>
         trace[i].out.value.id = trace[j].out.value.id
  /\ \A i \in DOMAIN trace :
       (trace[i].op \in AbsenceChecks /\ ~heap[trace[i].recv].some) =>
         trace[i].out = OnAbsent(trace[i])
  /\ \A i, j \in DOMAIN trace :
       (/\ trace[i].op \in AbsenceChecks
        /\ trace[j].op = trace[i].op
        /\ trace[j].arg = trace[i].arg
        /\ ~heap[trace[i].recv].some
        /\ ~heap[trace[j].recv].some) =>
         trace[i].out = trace[j].out /\ trace[i].invoked = trace[j].invoked

\* a None that is not NONE was checked, then a filter gave a wrapper over
\* NONE, which was checked too, with the same answer
C19_Witness ==
  /\ heap[1] = NoneLiteral
  /\ Len(trace) = 3
  /\ trace[1].op = "OptionChain.isSome" /\ trace[1].recv = 1
  /\ trace[2].op = "filter" /\ trace[2].ret = 2
  /\ heap[2] = NONE
  /\ trace[3].op = "OptionChain.isSome" /\ trace[3].recv = 2
  /\ trace[1].out = trace[3].out

\* toResult() / toOption() of the wrapper w
Unwrapped(w) ==
  IF side = "result" THEN ResultChain_toResult(heap[w]) ELSE OptionChain_toOption(heap[w])

\* C20: map(identity) keeps the container: what toResult() / toOption() gives
\* after it equals what the receiver held, variant and payload, for Ok, Err,
\* Some and None alike.
C20_MapIdentity ==
  \A i \in DOMAIN trace :
    (trace[i].op = "map" /\ trace[i].fn = "identity") =>
      Unwrapped(trace[i].ret) = Unwrapped(trace[i].recv)

\* map(identity) on Ok(1) built a new wrapper, which holds Ok(1)
C20_Witness ==
  /\ side = "result"
  /\ heap[1] = ok(Num(1))
  /\ Len(trace) >= 1
  /\ trace[1].op = "map" /\ trace[1].fn = "identity"
  /\ trace[1].ret = 2
  /\ Unwrapped(2) = ok(Num(1))

\* the container d is the success variant: Ok, or Some
Succeeded(d) == IF side = "result" THEN d.ok ELSE d.some

\* C21: flatten() on Ok(Ok(v)) holds Ok(v), on Ok(Err(e)) holds Err(e), on an
\* outer Err(e) still Err(e); on Some(Some(v)) it holds Some(v), on Some(None)
\* and on an outer None it holds None; and it gives what flatMap(identity)
\* gives on a receiver holding the same container.
C21_FlattenIsFlatMapIdentity ==
  /\ \A i \in DOMAIN trace :
       trace[i].op = "flatten" =>
         LET d == heap[trace[i].recv]
             r == heap[trace[i].ret]
         IN IF Succeeded(d) THEN r = d.value ELSE r = d
  /\ \A i, j \in DOMAIN trace :
       (/\ trace[i].op = "flatten"
        /\ trace[j].op = "flatMap" /\ trace[j].fn = "identity"
        /\ heap[trace[j].recv] = heap[trace[i].recv]) =>
         /\ heap[trace[j].ret] = heap[trace[i].ret]
         /\ (trace[j].ret = trace[j].recv) <=> (trace[i].ret = trace[i].recv)

\* Ok(Ok(1)) was wrapped again by map, and flatten and then flatMap(identity)
\* took the layers off one by one
C21_Witness ==
  /\ side = "result"
  /\ heap[1] = ok(ok(Num(1)))
  /\ Len(trace) = 3
  /\ trace[1].op = "flatten" /\ heap[trace[1].ret] = ok(Num(1))
  /\ trace[2].op = "map" /\ trace[2].fn = "wrapOk"
  /\ trace[3].op = "flatMap" /\ trace[3].fn = "identity"
  /\ heap[trace[3].ret] = ok(Num(1))

\* C23: OptionChain.isNone() returns true exactly when the held option is
\* None: it is the negation of isSome() on every wrapper, those returned by
\* map, flatMap and filter included.
C23_IsNoneNegatesIsSome ==
  \A i \in DOMAIN trace :
    trace[i].op = "isNone" =>
      trace[i].out = Returns(Bool(~heap[trace[i].recv].some))

\* C24: the container a wrapper holds never changes: whatever is called, on
\* it or on another wrapper, calls that throw and calls made on a wrapper
\* whose earlier results went elsewhere included, toResult() / toOption()
\* keeps giving the container the wrapper was created with.
C24_HeldContainerNeverChanges ==
  [][\A w \in DOMAIN heap : w \in DOMAIN heap' /\ Unwrapped(w)' = Unwrapped(w)]_vars

\* wrapper 1, holding Ok(1), was mapped, then asked unwrapErr, which threw,
\* then flatMapped to an Err, and still holds Ok(1)
C24_Witness ==
  /\ side = "result"
  /\ heap[1] = ok(Num(1))
  /\ Len(trace) = 3
  /\ trace[1].op = "map" /\ trace[1].recv = 1 /\ trace[1].ret = 2
  /\ trace[2].op = "unwrapErr" /\ trace[2].recv = 1 /\ trace[2].out.kind = "throw"
  /\ trace[3].op = "flatMap" /\ trace[3].fn = "fail" /\ trace[3].recv = 1
  /\ trace[3].ret = 3
  /\ Unwrapped(1) = ok(Num(1))

(***************************************************************************)
(* JavaScript values a function can return or throw.  An object carries    *)
(* its identity: id is its rank among the objects created.                 *)
(***************************************************************************)
JsNumber(n) == [t |-> "number", n |-> n]

JsString(s) == [t |-> "string", s |-> s]

JsNull == [t |-> "null"]

JsUndefined == [t |-> "undefined"]

\* an instance of Error or of a subclass of it
JsError(id, name, message) == [t |-> "Error", id |-> id, name |-> name, message |-> message]

\* an object that is not an Error: { code: 404 }, { message: "boom" }, or one
\* with no way to a primitive, as Object.create(null)
PlainObject(id, shape) == [t |-> "object", id |-> id, shape |-> shape]

ThrownNumbers == {JsNumber(n) : n \in Vals \cup {0, 42, 123}}

ThrownErrors ==
  {JsError(1, "Error", "boom"), JsError(1, "Error", ""), JsError(1, "TypeError", "boom")}

ThrownStrings == {JsString("string error"), JsString("")}

ThrownObjects == {PlainObject(1, shape) : shape \in {"code", "message", "nullproto"}}

\* everything the function passed may throw or reject with
Thrown ==
  ThrownErrors \cup ThrownNumbers \cup ThrownStrings \cup ThrownObjects
    \cup {JsNull, JsUndefined}

\* everything it may return or fulfil with
Produced == {JsNumber(n) : n \in Vals \cup {0}} \cup {JsNull, JsUndefined}

isObject(value) == value.t \in {"Error", "object"}

instanceofError(value) == value.t = "Error"

Digit(d) ==
  CASE d = 0 -> "0" [] d = 1 -> "1" [] d = 2 -> "2" [] d = 3 -> "3" [] d = 4 -> "4"
    [] d = 5 -> "5" [] d = 6 -> "6" [] d = 7 -> "7" [] d = 8 -> "8" [] d = 9 -> "9"

\* the decimal digits of a natural number
RECURSIVE NumberToString(_)
NumberToString(n) ==
  IF n < 10 THEN Digit(n) ELSE NumberToString(n \div 10) \o Digit(n % 10)

\* Error.prototype.toString
ErrorToString(e) ==
  IF e.message = "" THEN e.name ELSE e.name \o ": " \o e.message

\* String(value): the text of the value, or the TypeError the conversion throws;
\* id is the identity an object created here gets
String(value, id) ==
  CASE value.t = "number" -> Returns(JsString(NumberToString(value.n)))
    [] value.t = "string" -> Returns(value)
    [] value.t = "null" -> Returns(JsString("null"))
    [] value.t = "undefined" -> Returns(JsString("undefined"))
    [] value.t = "Error" -> Returns(JsString(ErrorToString(value)))
    [] value.t = "object" ->
         IF value.shape = "nullproto"
           THEN Throws(JsError(id, "TypeError", "Cannot convert object to primitive value"))
           ELSE Returns(JsString("[object Object]"))

(***************************************************************************)
(* Result.fromTry and Result.fromAsync.                                    *)
(***************************************************************************)
\* fromTry's catch block, entered with the value e
fromTryCatchRewraps(e, id) ==
  LET text == String(e, id) IN
  IF text.kind = "throw"
    THEN Throws(text.value)
    ELSE Returns(err(JsError(id, "Error", IF instanceofError(e) THEN e.message ELSE text.value.s)))

fromTryCatch(e, id) ==
  IF instanceofError(e)
    THEN Returns(err(e))
    ELSE LET text == String(e, id) IN
         IF text.kind = "throw"
           THEN Throws(text.value)
           ELSE Returns(err(JsError(id, "Error", text.value.s)))

\* fromAsync's catch block, entered with the value e
fromAsyncCatch(e, id) ==
  IF instanceofError(e)
    THEN Returns(err(e))
    ELSE LET text == String(e, id) IN
         IF text.kind = "throw"
           THEN Throws(text.value)
           ELSE Returns(err(JsError(id, "Error", text.value.s)))

\* an async function that returns r or throws settles its promise accordingly
AsyncOutcome(o) == IF o.kind = "return" THEN Fulfilled(o.value) ELSE Rejected(o.value)

\* what the function passed does: fromTry's returns or throws; fromAsync's
\* throws before it has a promise, or returns one that fulfils or rejects
Thunks(a) ==
  IF a = "fromTry"
    THEN {[mode |-> "return", value |-> v] : v \in Produced}
           \cup {[mode |-> "throw", value |-> e] : e \in Thrown}
    ELSE {[mode |-> "fulfil", value |-> v] : v \in Produced}
           \cup {[mode |-> m, value |-> e] : m \in {"throw", "reject"}, e \in Thrown}

\* the objects there are once the function's value v exists
With(n, v) == IF isObject(v) THEN n + 1 ELSE n

\* the objects there are once the call that ended with o is over: the catch
\* block makes one unless it hands the caught Error on
After(n, o) ==
  IF o.kind = "return" /\ o.value.ok = FALSE /\ o.value.error.id <= n THEN n ELSE n + 1

\* fromTry(fn): the whole call
fromTryCall ==
  /\ adapter = "fromTry"
  /\ adapterPc = "init"
  /\ thunkCalls' = thunkCalls + 1
  /\ IF thunk.mode = "return"
       THEN /\ outcome' = Returns(ok(thunk.value))
            /\ objects' = objects
       ELSE LET n == With(objects, thunk.value)
                o == fromTryCatch(thunk.value, n + 1)
            IN /\ outcome' = o
               /\ objects' = After(n, o)
  /\ adapterPc' = "done"
  /\ UNCHANGED <<adapter, thunk, settled, batchVars, streamVars, chainVars, serialVars>>

\* fromAsync(fn) up to its await, or through its catch block when fn throws
fromAsyncCall ==
  /\ adapter = "fromAsync"
  /\ adapterPc = "init"
  /\ thunkCalls' = thunkCalls + 1
  /\ IF thunk.mode = "throw"
       THEN LET n == With(objects, thunk.value)
                o == fromAsyncCatch(thunk.value, n + 1)
            IN /\ outcome' = AsyncOutcome(o)
               /\ objects' = After(n, o)
               /\ adapterPc' = "done"
       ELSE /\ adapterPc' = "await"
            /\ UNCHANGED <<outcome, objects>>
  /\ UNCHANGED <<adapter, thunk, settled, batchVars, streamVars, chainVars, serialVars>>

\* the promise fn returned fulfils or rejects
thunkSettles ==
  /\ adapterPc = "await"
  /\ ~settled
  /\ settled' = TRUE
  /\ objects' = With(objects, thunk.value)
  /\ UNCHANGED <<adapter, thunk, thunkCalls, adapterPc, outcome,
                 batchVars, streamVars, chainVars, serialVars>>

\* fromAsync from its await to its return
fromAsyncResume ==
  /\ adapterPc = "await"
  /\ settled
  /\ IF thunk.mode = "fulfil"
       THEN /\ outcome' = Fulfilled(ok(thunk.value))
            /\ objects' = objects
       ELSE LET o == fromAsyncCatch(thunk.value, objects + 1)
            IN /\ outcome' = AsyncOutcome(o)
               /\ objects' = After(objects, o)
  /\ adapterPc' = "done"
  /\ UNCHANGED <<adapter, thunk, thunkCalls, settled, batchVars, streamVars, chainVars, serialVars>>

AdapterStart ==
  /\ thunkCalls = 0
  /\ objects = 0
  /\ adapterPc = "init"
  /\ settled = FALSE
  /\ outcome = NotRun

AdapterIdle == adapter = "none" /\ thunk = [mode |-> "none"] /\ AdapterStart

AdapterNext == fromTryCall \/ fromAsyncCall \/ thunkSettles \/ fromAsyncResume

(***************************************************************************)
(* What the adapters are expected to do, stated on the function passed.    *)
(***************************************************************************)
\* a value with a message field: an Error, or any object that has one
HasMessageField(e) == instanceofError(e) \/ (e.t = "object" /\ e.shape = "message")

\* a value that has a textual form
HasText(e) == ~(e.t = "object" /\ e.shape = "nullproto")

\* the textual form of a value that is not an Error
TextOf(e) ==
  CASE e.t = "number" -> NumberToString(e.n)
    [] e.t = "string" -> e.s
    [] e.t = "null" -> "null"
    [] e.t = "undefined" -> "undefined"
    [] e.t = "object" -> "[object Object]"

\* r is an Err holding a plain Error, the last object made, whose message is text
GenericErr(r, text) ==
  /\ r.ok = FALSE
  /\ r.error.t = "Error"
  /\ r.error.name = "Error"
  /\ r.error.id = objects
  /\ r.error.message = text

FromTryDone == adapter = "fromTry" /\ adapterPc = "done"

\* C15, as stated: fromTry(f) calls f once; Ok(result) on a normal return; a
\* raised value that has a message field comes back in Err as the same object;
\* anything else comes back as Err of a generic error whose message is the
\* textual form of the raised value.
C15_MessageFieldPassedThrough ==
  FromTryDone =>
    /\ thunkCalls = 1
    /\ thunk.mode = "return" => outcome = Returns(ok(thunk.value))
    /\ (thunk.mode = "throw" /\ HasMessageField(thunk.value)) =>
         outcome = Returns(err(thunk.value))
    /\ (thunk.mode = "throw" /\ ~HasMessageField(thunk.value) /\ HasText(thunk.value)) =>
         outcome.kind = "return" /\ GenericErr(outcome.value, TextOf(thunk.value))

\* C15: fromTry(f) calls f once; Ok(result) on a normal return; a raised
\* instance of Error comes back in Err as the same object; any other raised
\* value that has a textual form, an object with a message field included,
\* comes back as Err of a new Error whose message is that text (42 gives "42",
\* null "null", undefined "undefined", a string itself).
C15_FromTryCoercion ==
  FromTryDone =>
    /\ thunkCalls = 1
    /\ thunk.mode = "return" => outcome = Returns(ok(thunk.value))
    /\ (thunk.mode = "throw" /\ instanceofError(thunk.value)) =>
         outcome = Returns(err(thunk.value))
    /\ (thunk.mode = "throw" /\ ~instanceofError(thunk.value) /\ HasText(thunk.value)) =>
         outcome.kind = "return" /\ GenericErr(outcome.value, TextOf(thunk.value))
    /\ (thunk.mode = "throw" /\ thunk.value = JsNumber(42)) =>
         outcome.value.error.message = "42"
    /\ (thunk.mode = "throw" /\ thunk.value = JsNull) =>
         outcome.value.error.message = "null"
    /\ (thunk.mode = "throw" /\ thunk.value = JsUndefined) =>
         outcome.value.error.message = "undefined"
    /\ (thunk.mode = "throw" /\ thunk.value = JsString("string error")) =>
         outcome.value.error.message = "string error"

\* fromTry caught an object that has a message field and is not an Error, and
\* returned Err of a new Error
C15_Witness ==
  /\ FromTryDone
  /\ thunk = [mode |-> "throw", value |-> PlainObject(1, "message")]
  /\ thunkCalls = 1
  /\ outcome = Returns(err(JsError(2, "Error", "[object Object]")))

FromAsyncDone == adapter = "fromAsync" /\ adapterPc = "done"

\* C16: the promise fromAsync(f) returns never rejects: it resolves to Ok(v)
\* when f's promise fulfils with v, and to Err under fromTry's rule both when
\* f throws before returning a promise and when its promise rejects (rejecting
\* with 123 gives an error with message "123", with an Error that same Error).
C16_FromAsyncResolves ==
  FromAsyncDone =>
    /\ thunkCalls = 1
    /\ outcome.kind = "fulfilled"
    /\ thunk.mode = "fulfil" => outcome.value = ok(thunk.value)
    /\ (thunk.mode \in {"throw", "reject"} /\ instanceofError(thunk.value)) =>
         outcome.value = err(thunk.value)
    /\ (thunk.mode \in {"throw", "reject"} /\ ~instanceofError(thunk.value)) =>
         GenericErr(outcome.value, TextOf(thunk.value))
    /\ (thunk.mode = "reject" /\ thunk.value = JsNumber(123)) =>
         outcome.value.error.message = "123"

(***************************************************************************)
(* What the collectors and consumers raise.                                *)
(***************************************************************************)
IsResult(x) == "ok" \in DOMAIN x /\ x.ok \in BOOLEAN

IsRejected(x) == "kind" \in DOMAIN x /\ x.kind = "rejected"

\* the batch collectors returned what their signatures say, whenever they ran
BatchReturnsContainers ==
  /\ collectOut # NotRun => IsResult(collectOut)
  /\ collectAllOut # NotRun => IsResult(collectAllOut)
  /\ partitionOut # NotRun => DOMAIN partitionOut = {"ok", "err"}

C30_AdaptersTotal ==
  adapterPc = "done" =>
    /\ adapter = "fromTry" => (outcome.kind = "return" /\ IsResult(outcome.value))
    /\ adapter = "fromAsync" => (outcome.kind = "fulfilled" /\ IsResult(outcome.value))

(***************************************************************************)
(* Containers through JSON.stringify and JSON.parse.  A document is the    *)
(* tree the text stands for.                                               *)
(***************************************************************************)
JsNaN == [t |-> "NaN"]

JsonNumber(n) == [j |-> "number", n |-> n]

JsonString(s) == [j |-> "string", s |-> s]

JsonNull == [j |-> "null"]

JsonBoolean(b) == [j |-> "boolean", b |-> b]

\* members maps each key of the object to its document
JsonObject(members) == [j |-> "object", members |-> members]

\* a container, as against a number, a text, null, undefined or NaN
IsPlainContainer(x) == "t" \notin DOMAIN x

\* the keys whose value is a boolean
Tags == {"ok", "some"}

\* the properties of the JavaScript object a container is: all the fields of
\* its record but the id, which stands for the object's identity
OwnKeys(x) == DOMAIN x \ {"id"}

\* JSON.stringify: a property whose value is undefined is left out, NaN is
\* written null
RECURSIVE JSON_stringify(_)
JSON_stringify(x) ==
  IF IsPlainContainer(x)
    THEN LET kept == {k \in OwnKeys(x) : k \in Tags \/ x[k] # JsUndefined}
         IN JsonObject([k \in kept |->
                          IF k \in Tags THEN JsonBoolean(x[k]) ELSE JSON_stringify(x[k])])
    ELSE CASE x.t = "number" -> JsonNumber(x.n)
           [] x.t = "string" -> JsonString(x.s)
           [] x.t = "null" -> JsonNull
           [] x.t = "NaN" -> JsonNull

\* JSON.parse: a new object for every object of the document
RECURSIVE JSON_parse(_)
JSON_parse(doc) ==
  CASE doc.j = "number" -> JsNumber(doc.n)
    [] doc.j = "string" -> JsString(doc.s)
    [] doc.j = "null" -> JsNull
    [] doc.j = "object" ->
         [k \in DOMAIN doc.members |->
            IF doc.members[k].j = "boolean"
              THEN doc.members[k].b
              ELSE JSON_parse(doc.members[k])]

\* the payloads put in the containers
SerialAtoms ==
  {JsNumber(n) : n \in Vals \cup {0}}
    \cup {JsString(""), JsString("test"), JsNull, JsUndefined, JsNaN}

SerialPayloads ==
  SerialAtoms
    \cup {ok(a) : a \in {JsNumber(1), JsUndefined}}
    \cup {err(a) : a \in {JsString("test"), JsUndefined}}
    \cup {some(a) : a \in {JsNumber(1), JsUndefined}}
    \cup {none}

SerialStart ==
  /\ made = NotRun
  /\ json = NotRun
  /\ parsed = NotRun

SerialIdle == SerialStart

okMade ==
  /\ made = NotRun
  /\ \E value \in SerialPayloads : made' = ok(value)
  /\ UNCHANGED <<json, parsed, batchVars, streamVars, chainVars, adapterVars>>

errMade ==
  /\ made = NotRun
  /\ \E error \in SerialPayloads : made' = err(error)
  /\ UNCHANGED <<json, parsed, batchVars, streamVars, chainVars, adapterVars>>

someMade ==
  /\ made = NotRun
  /\ \E value \in SerialPayloads : made' = some(value)
  /\ UNCHANGED <<json, parsed, batchVars, streamVars, chainVars, adapterVars>>

noneMade ==
  /\ made = NotRun
  /\ made' = none
  /\ UNCHANGED <<json, parsed, batchVars, streamVars, chainVars, adapterVars>>

stringifyCall ==
  /\ made # NotRun
  /\ json = NotRun
  /\ json' = JSON_stringify(made)
  /\ UNCHANGED <<made, parsed, batchVars, streamVars, chainVars, adapterVars>>

parseCall ==
  /\ json # NotRun
  /\ parsed = NotRun
  /\ parsed' = JSON_parse(json)
  /\ UNCHANGED <<made, json, batchVars, streamVars, chainVars, adapterVars>>

SerialNext == okMade \/ errMade \/ someMade \/ noneMade \/ stringifyCall \/ parseCall

(***************************************************************************)
(* What a container is made of, and what comes back from JSON.             *)
(***************************************************************************)
\* x without the identities of its objects: what a structural comparison sees
RECURSIVE Plain(_)
Plain(x) ==
  IF IsPlainContainer(x)
    THEN [k \in OwnKeys(x) |-> IF k \in Tags THEN x[k] ELSE Plain(x[k])]
    ELSE x

StructurallyEqual(a, b) == Plain(a) = Plain(b)

\* x has only the fields the constructors are said to give it
VisibleFieldsOnly(x) ==
  \/ OwnKeys(x) = {"ok", "value"} /\ x.ok = TRUE
  \/ OwnKeys(x) = {"ok", "error"} /\ x.ok = FALSE
  \/ OwnKeys(x) = {"some", "value"} /\ x.some = TRUE
  \/ OwnKeys(x) = {"some"} /\ x.some = FALSE

\* JSON has a form for x: no undefined and no NaN anywhere in it
RECURSIVE Representable(_)
Representable(x) ==
  IF IsPlainContainer(x)
    THEN \A k \in OwnKeys(x) \ Tags : Representable(x[k])
    ELSE x.t \in {"number", "string", "null"}

\* C22, as stated: a container made by ok, err, some or none has its visible
\* fields and no other, and what JSON.parse gives back for its JSON.stringify
\* is structurally equal to it, whatever the payload.
C22_RoundTripAnyPayload ==
  /\ made # NotRun => VisibleFieldsOnly(made)
  /\ parsed # NotRun => StructurallyEqual(parsed, made)

\* C22: a container made by ok, err, some or none has its visible fields and
\* no other; what comes back from JSON is structurally equal to it when JSON
\* has a form for the payload; a payload of undefined comes back as a
\* container with no payload field, and NaN comes back as null.
C22_RoundTripRepresentable ==
  /\ made # NotRun => VisibleFieldsOnly(made)
  /\ (parsed # NotRun /\ Representable(made)) => StructurallyEqual(parsed, made)
  /\ (parsed # NotRun /\ made = ok(JsUndefined)) => OwnKeys(parsed) = {"ok"}
  /\ (parsed # NotRun /\ made = some(JsNaN)) => parsed = some(JsNull)

\* Ok(Some(1)) went to JSON and came back equal
C22_Witness ==
  /\ made = ok(some(JsNumber(1)))
  /\ json # NotRun
  /\ parsed = ok(some(JsNumber(1)))

(***************************************************************************)
(* Initial states: one component runs, the others stay idle.               *)
(***************************************************************************)
BatchInit ==
  /\ results \in SeqsUpTo(Results, MaxLen)
  /\ BatchStart
  /\ StreamIdle
  /\ ChainIdle
  /\ AdapterIdle
  /\ SerialIdle

StreamInit ==
  /\ op \in StreamOps
  /\ src \in SeqsUpTo(Results, MaxLen)
  /\ srcFaulty = FALSE
  /\ srcEndless = FALSE
  /\ StreamStart
  /\ BatchIdle
  /\ ChainIdle
  /\ AdapterIdle
  /\ SerialIdle

ChainInit ==
  /\ ChainStart
  /\ \E c \in ChainStarts : side = c[1] /\ heap = <<c[2]>> /\ tdepth = c[3]
  /\ BatchIdle
  /\ StreamIdle
  /\ AdapterIdle
  /\ SerialIdle

AdapterInit ==
  /\ adapter \in {"fromTry", "fromAsync"}
  /\ thunk \in Thunks(adapter)
  /\ AdapterStart
  /\ BatchIdle
  /\ StreamIdle
  /\ ChainIdle
  /\ SerialIdle

\* a collector runs on an array, or a consumer on a source that may throw
AbandonInit ==
  /\ op \in {"collectStream", "takeUntilErr"}
  /\ src \in SeqsUpTo(Results, MaxLen)
  /\ srcFaulty = FALSE
  /\ srcEndless = FALSE
  /\ StreamStart
  /\ BatchIdle
  /\ ChainIdle
  /\ AdapterIdle
  /\ SerialIdle

EndlessInit ==
  /\ op \in {"collectStream", "collectStreamAll"}
  /\ src \in SeqsUpTo(Results, MaxLen)
  /\ srcFaulty = FALSE
  /\ srcEndless \in IF src = <<>> THEN {FALSE} ELSE BOOLEAN
  /\ StreamStart
  /\ BatchIdle
  /\ ChainIdle
  /\ AdapterIdle
  /\ SerialIdle

RaiseInit ==
  \/ BatchInit
  \/ /\ op \in StreamOps
     /\ src \in SeqsUpTo(Results, MaxLen)
     /\ srcFaulty \in BOOLEAN
     /\ srcEndless = FALSE
     /\ StreamStart
     /\ BatchIdle
     /\ ChainIdle
     /\ AdapterIdle
     /\ SerialIdle

AbsenceInit ==
  /\ ChainInit
  /\ side = "option"

SerialInit ==
  /\ SerialStart
  /\ BatchIdle
  /\ StreamIdle
  /\ ChainIdle
  /\ AdapterIdle

RaiseNext == BatchNext \/ FaultyStreamNext

(***************************************************************************)
(* Specifications                                                          *)
(***************************************************************************)
SpecBatch == BatchInit /\ [][BatchNext]_vars

SpecStream == StreamInit /\ [][StreamNext]_vars

SpecAbandon == AbandonInit /\ [][AbandonNext]_vars

SpecEndless ==
  /\ EndlessInit
  /\ [][EndlessNext]_vars
  /\ WF_vars(SourceAnswers)
  /\ WF_vars(ContinuationRuns)

SpecChain == ChainInit /\ [][ChainNext]_vars

SpecRaise == RaiseInit /\ [][RaiseNext]_vars

SpecAbsence == AbsenceInit /\ [][AbsenceNext]_vars

SpecSerial == SerialInit /\ [][SerialNext]_vars

SpecFrame == ChainInit /\ [][FrameNext]_vars

SpecAdapter == AdapterInit /\ [][AdapterNext]_vars

====
